---- MODULE Spec2Model ----
(***************************************************************************)
(* The CQL engine of backend/services/collocation/cql_engine.py: the       *)
(* parser (query string -> CQLQuery), the condition evaluator and the      *)
(* sequence matcher with its context extraction.                           *)
(*                                                                         *)
(* A Python str is a sequence of one-character strings.  Positions are the *)
(* code's 0-based positions: Char(s, i) is s[i], Slice(s, a, b) is s[a:b]. *)
(***************************************************************************)
EXTENDS Integers, Sequences, FiniteSets, TLC

(* ------------------------------------------------------------------ *)
(* Python str primitives used by the engine                            *)
(* ------------------------------------------------------------------ *)

Char(s, i) ==
    s[i + 1]

Slice(s, a, b) ==
    SubSeq(s, a + 1, b)

LowerLetters ==
    <<"a", "b", "c", "d", "e", "f", "g", "h", "i", "j", "k", "l", "m",
      "n", "o", "p", "q", "r", "s", "t", "u", "v", "w", "x", "y", "z">>

UpperLetters ==
    <<"A", "B", "C", "D", "E", "F", "G", "H", "I", "J", "K", "L", "M",
      "N", "O", "P", "Q", "R", "S", "T", "U", "V", "W", "X", "Y", "Z">>

Digits ==
    <<"0", "1", "2", "3", "4", "5", "6", "7", "8", "9">>

Range(s) ==
    {s[i] : i \in DOMAIN s}

\* str.isspace() on one character
IsSpaceChar(c) ==
    c \in {" ", "\t"}

\* the regex class \w
IsWordChar(c) ==
    c \in Range(LowerLetters) \cup Range(UpperLetters) \cup Range(Digits) \cup {"_"}

\* the regex class \d
IsDigitChar(c) ==
    c \in Range(Digits)

DigitValue(c) ==
    (CHOOSE i \in DOMAIN Digits : Digits[i] = c) - 1

LowerChar(c) ==
    IF c \in Range(UpperLetters)
    THEN LowerLetters[CHOOSE i \in DOMAIN UpperLetters : UpperLetters[i] = c]
    ELSE c

\* str.lower()
Lower(s) ==
    [i \in DOMAIN s |-> LowerChar(s[i])]

\* str.strip()
RECURSIVE LStrip(_)
LStrip(s) ==
    IF s # <<>> /\ IsSpaceChar(Head(s)) THEN LStrip(Tail(s)) ELSE s

RECURSIVE RStrip(_)
RStrip(s) ==
    IF s # <<>> /\ IsSpaceChar(s[Len(s)]) THEN RStrip(SubSeq(s, 1, Len(s) - 1)) ELSE s

Strip(s) ==
    RStrip(LStrip(s))

\* str.startswith(p)
StartsWith(s, p) ==
    Len(s) >= Len(p) /\ SubSeq(s, 1, Len(p)) = p

\* s.startswith(p, i): p occurs in s at 0-based position i
HasAt(s, i, p) ==
    i + Len(p) <= Len(s) /\ Slice(s, i, i + Len(p)) = p

\* str.endswith(p)
EndsWith(s, p) ==
    Len(s) >= Len(p) /\ SubSeq(s, Len(s) - Len(p) + 1, Len(s)) = p

\* str.index(c, from): the 0-based position of the first c at or after from,
\* -1 where Python raises ValueError
IndexFrom(s, c, from) ==
    IF \E i \in from..(Len(s) - 1) : Char(s, i) = c
    THEN CHOOSE i \in from..(Len(s) - 1) :
            Char(s, i) = c /\ \A j \in from..(i - 1) : Char(s, j) # c
    ELSE -1

\* int(s) of a stripped string: an optional sign and at least one decimal
\* digit; ok = FALSE where Python raises ValueError
RECURSIVE DigitsValue(_, _)
DigitsValue(s, acc) ==
    IF s = <<>> THEN acc ELSE DigitsValue(Tail(s), acc * 10 + DigitValue(Head(s)))

IntOf(s) ==
    LET signed == s # <<>> /\ Head(s) \in {"+", "-"}
        body   == IF signed THEN Tail(s) ELSE s
        okay   == body # <<>> /\ \A i \in DOMAIN body : IsDigitChar(body[i])
    IN  IF ~okay THEN [ok |-> FALSE, val |-> 0]
        ELSE [ok |-> TRUE,
              val |-> IF signed /\ Head(s) = "-"
                      THEN 0 - DigitsValue(body, 0)
                      ELSE DigitsValue(body, 0)]

(* ------------------------------------------------------------------ *)
(* Attribute names, operators (class constants)                        *)
(* ------------------------------------------------------------------ *)

W_word == <<"w", "o", "r", "d">>
W_lemma == <<"l", "e", "m", "m", "a">>
W_pos == <<"p", "o", "s">>
W_tag == <<"t", "a", "g">>
W_dep == <<"d", "e", "p">>
W_headword == <<"h", "e", "a", "d">> \o W_word
W_headlemma == <<"h", "e", "a", "d">> \o W_lemma
W_headpos == <<"h", "e", "a", "d">> \o W_pos
W_headdep == <<"h", "e", "a", "d">> \o W_dep

ATTRIBUTES ==
    {W_word, W_lemma, W_pos, W_tag, W_dep,
     W_headword, W_headlemma, W_headpos, W_headdep}

default_attribute ==
    W_word

OpRegex == <<"=">>
OpNotRegex == <<"!", "=">>
OpExact == <<"=", "=">>
OpNotExact == <<"!", "=", "=">>
OpTriple == <<"=", "=", "=">>

\* the four operators the data model documents
OPERATORS ==
    {OpRegex, OpNotRegex, OpExact, OpNotExact}

(* ------------------------------------------------------------------ *)
(* Data classes                                                        *)
(* ------------------------------------------------------------------ *)

TokenCondition(attribute, value, operator, negated) ==
    [attribute |-> attribute, value |-> value, operator |-> operator,
     negated |-> negated]

\* or_conditions = None is the empty sequence: the code reads the field only
\* through its truth value, and None and [] are both false
TokenPattern(conditions, or_conditions, is_any, min_count, max_count, optional) ==
    [conditions |-> conditions, or_conditions |-> or_conditions,
     is_any |-> is_any, min_count |-> min_count, max_count |-> max_count,
     optional |-> optional]

CQLQuery(patterns, or_groups) ==
    [patterns |-> patterns, or_groups |-> or_groups]

\* a raised CQLParseError
ParseError(msg) ==
    [ok |-> FALSE, error |-> msg]

(* ------------------------------------------------------------------ *)
(* Parser: the content of one bracket                                  *)
(* ------------------------------------------------------------------ *)

\* _split_by_operator: the loop over the characters, then the last part
RECURSIVE SplitLoop(_, _, _, _, _, _, _)
SplitLoop(content, i, operator, parts, current, in_quotes, paren_depth) ==
    IF i >= Len(content)
    THEN IF current # <<>> THEN Append(parts, current) ELSE parts
    ELSE IF Char(content, i) = "\""
    THEN SplitLoop(content, i + 1, operator, parts,
                   Append(current, Char(content, i)), ~in_quotes, paren_depth)
    ELSE IF Char(content, i) = "("
    THEN SplitLoop(content, i + 1, operator, parts,
                   Append(current, Char(content, i)), in_quotes, paren_depth + 1)
    ELSE IF Char(content, i) = ")"
    THEN SplitLoop(content, i + 1, operator, parts,
                   Append(current, Char(content, i)), in_quotes, paren_depth - 1)
    ELSE IF Char(content, i) = operator /\ ~in_quotes /\ paren_depth = 0
    THEN SplitLoop(content, i + 1, operator, Append(parts, current),
                   <<>>, in_quotes, paren_depth)
    ELSE SplitLoop(content, i + 1, operator, parts,
                   Append(current, Char(content, i)), in_quotes, paren_depth)

split_by_operator(content, operator) ==
    SplitLoop(content, 0, operator, <<>>, <<>>, FALSE, 0)

\* the end of the longest run of \s (of \w) characters from position i
RECURSIVE SkipSpaces(_, _)
SkipSpaces(s, i) ==
    IF i < Len(s) /\ IsSpaceChar(Char(s, i)) THEN SkipSpaces(s, i + 1) ELSE i

RECURSIVE SkipWord(_, _)
SkipWord(s, i) ==
    IF i < Len(s) /\ IsWordChar(Char(s, i)) THEN SkipWord(s, i + 1) ELSE i

\* the alternation (===?|!==?|=) in the order the regex engine tries it:
\* each branch is greedy in its optional last '='
OperatorSpellings ==
    <<OpTriple, OpExact, OpNotExact, OpNotRegex, OpRegex>>

\* "([^"]*)" matches at position q
QuoteOpens(part, q) ==
    /\ q < Len(part)
    /\ Char(part, q) = "\""
    /\ IndexFrom(part, "\"", q + 1) # -1

\* \s*"([^"]*)" matches from position i
RestMatches(part, i) ==
    QuoteOpens(part, SkipSpaces(part, i))

\* the k-th spelling at op_at, with the rest of the pattern after it
SpellingFits(part, op_at, k) ==
    /\ HasAt(part, op_at, OperatorSpellings[k])
    /\ RestMatches(part, op_at + Len(OperatorSpellings[k]))

\* the spelling the regex engine settles on, 0 when none fits
FirstSpelling(part, op_at) ==
    IF \E k \in DOMAIN OperatorSpellings : SpellingFits(part, op_at, k)
    THEN CHOOSE k \in DOMAIN OperatorSpellings :
            /\ SpellingFits(part, op_at, k)
            /\ \A j \in 1..(k - 1) : ~SpellingFits(part, op_at, j)
    ELSE 0

\* the groups of a match: the opening quote of the value is at q1
MatchGroups(part, p, wend, operator, q1) ==
    [matched    |-> TRUE,
     prefix_neg |-> Slice(part, 0, p),
     attribute  |-> Slice(part, p, wend),
     operator   |-> operator,
     value      |-> Slice(part, q1 + 1, IndexFrom(part, "\"", q1 + 1))]

MatchWithSpelling(part, p, wend, op_at, k) ==
    IF wend = p \/ k = 0 THEN [matched |-> FALSE]
    ELSE MatchGroups(part, p, wend, OperatorSpellings[k],
                     SkipSpaces(part, op_at + Len(OperatorSpellings[k])))

MatchFromOperator(part, p, wend, op_at) ==
    MatchWithSpelling(part, p, wend, op_at, FirstSpelling(part, op_at))

MatchFromWord(part, p, wend) ==
    MatchFromOperator(part, p, wend, SkipSpaces(part, wend))

\* CONDITION_PATTERN.match(part):
\*   (!?)(\w+)\s*(===?|!==?|=)\s*"([^"]*)"
\* anchored at the start of part only; what follows the closing quote is not
\* looked at.  (!?) takes a leading '!', \w+ the longest word after it.
CONDITION_PATTERN_match(part) ==
    IF part # <<>> /\ Head(part) = "!"
    THEN MatchFromWord(part, 1, SkipWord(part, 1))
    ELSE MatchFromWord(part, 0, SkipWord(part, 0))

\* ConditionFromMatch with the attribute taken as it is written
ConditionFromMatchAnyAttribute(part, negated, match) ==
    IF ~match.matched
    THEN IF StartsWith(part, <<"\"">>) /\ EndsWith(part, <<"\"">>)
         THEN [ok |-> TRUE,
               condition |-> TokenCondition(default_attribute,
                                 Slice(part, 1, Len(part) - 1),
                                 OpRegex, negated)]
         ELSE ParseError("Invalid condition")
    ELSE [ok |-> TRUE,
          condition |-> TokenCondition(match.attribute, match.value,
                            match.operator,
                            IF match.prefix_neg = <<"!">> THEN ~negated
                            ELSE negated)]

\* _parse_single_condition once the regex has been tried
ConditionFromMatch(part, negated, match) ==
    IF ~match.matched
    THEN IF StartsWith(part, <<"\"">>) /\ EndsWith(part, <<"\"">>)
         THEN [ok |-> TRUE,
               condition |-> TokenCondition(default_attribute,
                                 Slice(part, 1, Len(part) - 1),
                                 OpRegex, negated)]
         ELSE ParseError("Invalid condition")
    ELSE IF match.attribute \notin ATTRIBUTES
    THEN ParseError("Unknown attribute")
    ELSE [ok |-> TRUE,
          condition |-> TokenCondition(match.attribute, match.value,
                            match.operator,
                            IF match.prefix_neg = <<"!">> THEN ~negated
                            ELSE negated)]

\* _parse_single_condition
parse_single_condition(part, negated) ==
    ConditionFromMatch(part, negated, CONDITION_PATTERN_match(part))

\* the negation prefix test of _parse_and_conditions
HasNegationPrefix(part) ==
    /\ StartsWith(part, <<"!">>)
    /\ ~StartsWith(part, OpNotRegex)
    /\ ~StartsWith(part, OpNotExact)

\* "Remove parentheses if present"
Unparenthesized(part) ==
    IF StartsWith(part, <<"(">>) /\ EndsWith(part, <<")">>)
    THEN Strip(Slice(part, 1, Len(part) - 1))
    ELSE part

\* the part the condition is parsed from
WithoutNegationPrefix(part) ==
    IF HasNegationPrefix(part) THEN Unparenthesized(Strip(Tail(part))) ELSE part

\* the body of the loop of _parse_and_conditions for one non-empty part
ParseAndPart(part) ==
    parse_single_condition(WithoutNegationPrefix(part), HasNegationPrefix(part))

RECURSIVE AndLoop(_, _, _)

AndNext(parts, k, conditions, r) ==
    IF ~r.ok THEN r
    ELSE AndLoop(parts, k + 1, Append(conditions, r.condition))

AndPart(parts, k, conditions, part) ==
    IF part = <<>> THEN AndLoop(parts, k + 1, conditions)
    ELSE AndNext(parts, k, conditions, ParseAndPart(part))

\* the for loop of _parse_and_conditions from the k-th part
AndLoop(parts, k, conditions) ==
    IF k > Len(parts) THEN [ok |-> TRUE, conditions |-> conditions]
    ELSE AndPart(parts, k, conditions, Strip(parts[k]))

\* _parse_and_conditions
parse_and_conditions(content) ==
    AndLoop(split_by_operator(content, "&"), 1, <<>>)

RECURSIVE OrLoop(_, _, _)

OrNext(or_parts, k, or_groups, r) ==
    IF ~r.ok THEN r
    ELSE OrLoop(or_parts, k + 1,
                IF r.conditions # <<>> THEN Append(or_groups, r.conditions)
                ELSE or_groups)

\* the for loop of _parse_conditions from the k-th part
OrLoop(or_parts, k, or_groups) ==
    IF k > Len(or_parts)
    THEN [ok |-> TRUE, conditions |-> <<>>, or_conditions |-> or_groups]
    ELSE OrNext(or_parts, k, or_groups, parse_and_conditions(Strip(or_parts[k])))

\* AndOnly with the AND list kept as an OR-group as well
AndOnlyAlsoGrouped(r) ==
    IF ~r.ok THEN r
    ELSE [ok |-> TRUE, conditions |-> r.conditions,
          or_conditions |-> <<r.conditions>>]

\* "Only AND conditions": return and_conditions, None
AndOnly(r) ==
    IF ~r.ok THEN r
    ELSE [ok |-> TRUE, conditions |-> r.conditions, or_conditions |-> <<>>]

ConditionsOfParts(content, or_parts) ==
    IF Len(or_parts) > 1 THEN OrLoop(or_parts, 1, <<>>)
    ELSE AndOnly(parse_and_conditions(content))

\* _parse_conditions
parse_conditions(content) ==
    ConditionsOfParts(content, split_by_operator(content, "|"))

(* ------------------------------------------------------------------ *)
(* Parser: one token pattern [...] with its repetition suffix          *)
(* ------------------------------------------------------------------ *)

\* the bracket-matching loop of _parse_token_pattern
RECURSIVE BracketScan(_, _, _)
BracketScan(query, pos, bracket_count) ==
    IF pos < Len(query) /\ bracket_count > 0
    THEN BracketScan(query, pos + 1,
             IF Char(query, pos) = "[" THEN bracket_count + 1
             ELSE IF Char(query, pos) = "]" THEN bracket_count - 1
             ELSE bracket_count)
    ELSE [pos |-> pos, bracket_count |-> bracket_count]

\* the sentinel max_count of an open upper bound and of '*'
UnboundedMax == 100

\* Repetition asking for one token at least
RepetitionAtLeastOne(min_count, max_count, optional, end_pos) ==
    [ok |-> TRUE, min_count |-> IF min_count = 0 THEN 1 ELSE min_count,
     max_count |-> max_count, optional |-> optional, end_pos |-> end_pos]

Repetition(min_count, max_count, optional, end_pos) ==
    [ok |-> TRUE, min_count |-> min_count, max_count |-> max_count,
     optional |-> optional, end_pos |-> end_pos]

\* int(part) if part else default, part being stripped
BoundOf(part, default) ==
    IF part # <<>> THEN IntOf(part) ELSE [ok |-> TRUE, val |-> default]

\* both bounds converted, or the ValueError turned into a CQLParseError
BoundsToRepetition(lo, hi, end_pos) ==
    IF lo.ok /\ hi.ok THEN Repetition(lo.val, hi.val, FALSE, end_pos)
    ELSE ParseError("Invalid repetition syntax")

\* rep_content.split(',')[1], comma1 and comma2 being the first two commas
SecondPart(rep_content, comma1, comma2) ==
    Slice(rep_content, comma1 + 1,
          IF comma2 = -1 THEN Len(rep_content) ELSE comma2)

\* the branch "',' in rep_content": parts[0] and parts[1]
BoundsOfRange(rep_content, comma1, end_pos) ==
    BoundsToRepetition(
        BoundOf(Strip(Slice(rep_content, 0, comma1)), 0),
        BoundOf(Strip(SecondPart(rep_content, comma1,
                                 IndexFrom(rep_content, ",", comma1 + 1))),
                UnboundedMax),
        end_pos)

\* BoundsOfCount leaving the upper bound open
BoundsOfCountOpen(n, end_pos) ==
    BoundsToRepetition(n, [ok |-> TRUE, val |-> UnboundedMax], end_pos)

\* the other branch: min_count = max_count = int(rep_content.strip())
BoundsOfCount(n, end_pos) ==
    BoundsToRepetition(n, n, end_pos)

BoundsOfContent(rep_content, end_pos) ==
    IF \E i \in DOMAIN rep_content : rep_content[i] = ","
    THEN BoundsOfRange(rep_content, IndexFrom(rep_content, ",", 0), end_pos)
    ELSE BoundsOfCount(IntOf(Strip(rep_content)), end_pos)

\* query[end_pos] is '{' and rep_end = query.index('}', end_pos)
BracesUpTo(query, end_pos, rep_end) ==
    IF rep_end = -1 THEN ParseError("Invalid repetition syntax")
    ELSE BoundsOfContent(Slice(query, end_pos + 1, rep_end), rep_end + 1)

\* the repetition modifier that follows the closing bracket at end_pos
ParseRepetition(query, end_pos) ==
    IF end_pos >= Len(query) THEN Repetition(1, 1, FALSE, end_pos)
    ELSE IF Char(query, end_pos) = "{"
    THEN BracesUpTo(query, end_pos, IndexFrom(query, "}", end_pos))
    ELSE IF Char(query, end_pos) = "?" THEN Repetition(0, 1, TRUE, end_pos + 1)
    ELSE IF Char(query, end_pos) = "*"
    THEN Repetition(0, UnboundedMax, FALSE, end_pos + 1)
    ELSE Repetition(1, 1, FALSE, end_pos)

PatternWithConditions(rep, conds) ==
    IF ~conds.ok THEN conds
    ELSE [ok |-> TRUE,
          pattern |-> TokenPattern(conds.conditions, conds.or_conditions,
                                   FALSE, rep.min_count, rep.max_count,
                                   rep.optional),
          end_pos |-> rep.end_pos]

PatternWithRepetition(content, rep) ==
    IF ~rep.ok THEN rep
    ELSE IF content = <<>>
    THEN [ok |-> TRUE,
          pattern |-> TokenPattern(<<>>, <<>>, TRUE, rep.min_count,
                                   rep.max_count, rep.optional),
          end_pos |-> rep.end_pos]
    ELSE PatternWithConditions(rep, parse_conditions(content))

PatternAfterScan(query, start_pos, scan) ==
    IF scan.bracket_count # 0 THEN ParseError("Unmatched bracket")
    ELSE PatternWithRepetition(Strip(Slice(query, start_pos + 1, scan.pos - 1)),
                               ParseRepetition(query, scan.pos))

\* _parse_token_pattern: query[start_pos] is '['
parse_token_pattern(query, start_pos) ==
    PatternAfterScan(query, start_pos, BracketScan(query, start_pos + 1, 1))

(* ------------------------------------------------------------------ *)
(* Parser: parse(), phase 1 (segments) and phase 2 (alternatives)      *)
(* ------------------------------------------------------------------ *)

PatternSegment(pattern) ==
    [type |-> "pattern", value |-> pattern]

OrSegment ==
    [type |-> "or"]

QuotedUpTo(query, pos, end_quote) ==
    IF end_quote = -1 THEN ParseError("Unclosed quote")
    ELSE [ok |-> TRUE,
          pattern |-> TokenPattern(
                          <<TokenCondition(default_attribute,
                                Slice(query, pos + 1, end_quote),
                                OpRegex, FALSE)>>,
                          <<>>, FALSE, 1, 1, FALSE),
          end_pos |-> end_quote + 1]

\* the top-level quoted string branch: query[pos] is '"'
ParseQuoted(query, pos) ==
    QuotedUpTo(query, pos, IndexFrom(query, "\"", pos + 1))

\* GroupLoop closing a group at every '|', an empty one too
RECURSIVE GroupLoopKeepsEmpty(_, _, _, _)
GroupLoopKeepsEmpty(segments, k, or_groups, current_group) ==
    IF k > Len(segments)
    THEN IF current_group # <<>> THEN Append(or_groups, current_group) ELSE or_groups
    ELSE IF segments[k].type = "or"
    THEN GroupLoopKeepsEmpty(segments, k + 1, Append(or_groups, current_group), <<>>)
    ELSE GroupLoopKeepsEmpty(segments, k + 1, or_groups,
                             Append(current_group, segments[k].value))

\* the groups of phase 2: the loop over the segments, then the last group
RECURSIVE GroupLoop(_, _, _, _)
GroupLoop(segments, k, or_groups, current_group) ==
    IF k > Len(segments)
    THEN IF current_group # <<>> THEN Append(or_groups, current_group) ELSE or_groups
    ELSE IF segments[k].type = "or"
    THEN IF current_group # <<>>
         THEN GroupLoop(segments, k + 1, Append(or_groups, current_group), <<>>)
         ELSE GroupLoop(segments, k + 1, or_groups, current_group)
    ELSE GroupLoop(segments, k + 1, or_groups,
                   Append(current_group, segments[k].value))

SplitAlternatives(segments) ==
    GroupLoop(segments, 1, <<>>, <<>>)

\* QueryOfGroups keeping a single group as an alternatives list
QueryOfGroupsNoCollapse(or_groups) ==
    IF or_groups = <<>> THEN ParseError("No valid patterns found in query")
    ELSE [ok |-> TRUE, query |-> CQLQuery(or_groups[1], or_groups)]

\* the returns of parse() once the groups are known
QueryOfGroups(or_groups) ==
    IF or_groups = <<>> THEN ParseError("No valid patterns found in query")
    ELSE IF Len(or_groups) = 1
    THEN [ok |-> TRUE, query |-> CQLQuery(or_groups[1], <<>>)]
    ELSE [ok |-> TRUE, query |-> CQLQuery(or_groups[1], or_groups)]

\* parse() from "if not segments" to its return
Phase2(segments) ==
    IF segments = <<>> THEN ParseError("No valid patterns found in query")
    ELSE IF ~\E k \in DOMAIN segments : segments[k].type = "or"
    THEN [ok |-> TRUE,
          query |-> CQLQuery([k \in DOMAIN segments |-> segments[k].value], <<>>)]
    ELSE QueryOfGroups(SplitAlternatives(segments))

\* a parsed token appended to the segments, or its error
SegmentStep(kind, segments, r) ==
    IF r.ok
    THEN [kind |-> kind, pos |-> r.end_pos,
          segments |-> Append(segments, PatternSegment(r.pattern))]
    ELSE [kind |-> "error", error |-> r.error]

\* one iteration of the phase-1 while loop once the whitespace is skipped
StepAt(query, at, segments) ==
    IF at >= Len(query) THEN [kind |-> "end", pos |-> at, segments |-> segments]
    ELSE IF Char(query, at) = "["
    THEN SegmentStep("bracket", segments, parse_token_pattern(query, at))
    ELSE IF Char(query, at) = "\""
    THEN SegmentStep("quoted", segments, ParseQuoted(query, at))
    ELSE IF Char(query, at) = "|"
    THEN [kind |-> "or", pos |-> at + 1, segments |-> Append(segments, OrSegment)]
    ELSE [kind |-> "error", error |-> "Unexpected character"]

\* one iteration of the phase-1 while loop from position pos: one segment,
\* a raised error, or the end of the loop
Phase1Step(query, pos, segments) ==
    StepAt(query, SkipSpaces(query, pos), segments)

RECURSIVE Phase1Loop(_, _, _)

AfterStep(query, segments, step) ==
    IF step.kind = "error" THEN ParseError(step.error)
    ELSE IF step.kind = "end" THEN Phase2(segments)
    ELSE Phase1Loop(query, step.pos, step.segments)

Phase1Loop(query, pos, segments) ==
    AfterStep(query, segments, Phase1Step(query, pos, segments))

ParseStripped(query) ==
    IF query = <<>> THEN ParseError("Empty query")
    ELSE Phase1Loop(query, 0, <<>>)

\* parse(): the CQLQuery, or the CQLParseError raised
parse(query_string) ==
    ParseStripped(Strip(query_string))

(* ------------------------------------------------------------------ *)
(* Condition evaluator                                                 *)
(* ------------------------------------------------------------------ *)

\* A token is a dict: a function from keys to values.  The value None:
None ==
    <<"None">>

\* the dict key an attribute name spells
AttrKey(attribute) ==
    CASE attribute = W_word -> "word"
      [] attribute = W_lemma -> "lemma"
      [] attribute = W_pos -> "pos"
      [] attribute = W_tag -> "tag"
      [] attribute = W_dep -> "dep"
      [] attribute = W_headword -> "headword"
      [] attribute = W_headlemma -> "headlemma"
      [] attribute = W_headpos -> "headpos"
      [] attribute = W_headdep -> "headdep"
      [] OTHER -> "?"

\* dict.get(key, default)
DictGet(token, key, default) ==
    IF key \in DOMAIN token THEN token[key] ELSE default

\* the truth value of t.get('is_space') / t.get('is_punct')
Flag(token, key) ==
    key \in DOMAIN token /\ token[key] = TRUE

\* re.compile raises re.error: of the regex syntax, the model covers literal
\* characters, '.', a '*' after either, and parentheses only as far as
\* compiling goes (a '*' with nothing to repeat, an unbalanced parenthesis)
RECURSIVE ParenBalance(_, _, _)
ParenBalance(p, i, depth) ==
    IF depth < 0 THEN FALSE
    ELSE IF i > Len(p) THEN depth = 0
    ELSE ParenBalance(p, i + 1,
             IF p[i] = "(" THEN depth + 1
             ELSE IF p[i] = ")" THEN depth - 1 ELSE depth)

RegexError(p) ==
    \/ \E i \in DOMAIN p : p[i] = "*" /\ (i = 1 \/ p[i - 1] \in {"*", "("})
    \/ ~ParenBalance(p, 1, 0)

\* one pattern character against one subject character, re.IGNORECASE
AtomMatches(a, c) ==
    a = "." \/ LowerChar(a) = LowerChar(c)

\* re.fullmatch(p, s, re.IGNORECASE) from pattern index i and subject index j
RECURSIVE FullMatchFrom(_, _, _, _)
FullMatchFrom(p, i, s, j) ==
    IF i > Len(p) THEN j > Len(s)
    ELSE IF i < Len(p) /\ p[i + 1] = "*"
    THEN \E k \in 0..(Len(s) - j + 1) :
            /\ \A m \in j..(j + k - 1) : AtomMatches(p[i], s[m])
            /\ FullMatchFrom(p, i + 2, s, j + k)
    ELSE /\ j <= Len(s)
         /\ AtomMatches(p[i], s[j])
         /\ FullMatchFrom(p, i + 1, s, j + 1)

re_fullmatch(p, s) ==
    FullMatchFrom(p, 1, s, 1)

\* the comparison of '==', of the fallbacks and, negated, of '!=='
ExactEqual(value, token_value) ==
    Lower(token_value) = Lower(value)

\* the try/except of '=' and, negated, of '!='
RegexOrExact(value, token_value) ==
    IF RegexError(value) THEN ExactEqual(value, token_value)
    ELSE re_fullmatch(value, token_value)

\* _match_condition before the negation is applied
OperatorMatch(operator, value, token_value) ==
    IF operator = OpExact THEN ExactEqual(value, token_value)
    ELSE IF operator = OpNotExact THEN ~ExactEqual(value, token_value)
    ELSE IF operator = OpRegex THEN RegexOrExact(value, token_value)
    ELSE IF operator = OpNotRegex THEN ~RegexOrExact(value, token_value)
    ELSE FALSE

\* token_value = token.get(condition.attribute, ''), None read as ''
NoneAsEmpty(value) ==
    IF value = None THEN <<>> ELSE value

TokenValue(token, attribute) ==
    NoneAsEmpty(DictGet(token, AttrKey(attribute), <<>>))

\* ApplyNegation leaving the match as it is
ApplyNegationNever(negated, match) ==
    match

\* "Apply negation"
ApplyNegation(negated, match) ==
    IF negated THEN ~match ELSE match

\* _match_condition
match_condition(token, condition) ==
    ApplyNegation(condition.negated,
                  OperatorMatch(condition.operator, condition.value,
                                TokenValue(token, condition.attribute)))

\* match_all_conditions satisfied by any one condition
MatchAnyCondition(token, conditions) ==
    \E k \in DOMAIN conditions : match_condition(token, conditions[k])

\* _match_all_conditions
match_all_conditions(token, conditions) ==
    \A k \in DOMAIN conditions : match_condition(token, conditions[k])

\* the conditions match_token checks: each OR-group in turn, or the AND list
ConditionGroups(pattern) ==
    IF pattern.or_conditions # <<>> THEN pattern.or_conditions
    ELSE <<pattern.conditions>>

\* match_token
match_token(token, pattern) ==
    IF pattern.is_any THEN TRUE
    ELSE \E g \in DOMAIN ConditionGroups(pattern) :
            match_all_conditions(token, ConditionGroups(pattern)[g])

\* re.fullmatch raises an exception that is no re.error, which the except
\* clauses of _match_condition do not catch: of these the model covers the
\* OverflowError of a repetition count too large, '{' after the first
\* character, eleven or more digits not led by '0', then '}'
RECURSIVE SkipDigits(_, _)
SkipDigits(s, i) ==
    IF i < Len(s) /\ IsDigitChar(Char(s, i)) THEN SkipDigits(s, i + 1) ELSE i

CountTooLargeAt(p, i, digits_end) ==
    /\ Char(p, i) = "{"
    /\ digits_end - (i + 1) >= 11
    /\ Char(p, i + 1) # "0"
    /\ digits_end < Len(p)
    /\ Char(p, digits_end) = "}"

RepeatTooLarge(p) ==
    \E i \in 1..(Len(p) - 1) : CountTooLargeAt(p, i, SkipDigits(p, i + 1))

\* _match_condition raises: the operator compiles the value and the
\* exception is not caught
ConditionRaises(condition) ==
    /\ condition.operator \in {OpRegex, OpNotRegex}
    /\ ~RegexError(condition.value)
    /\ RepeatTooLarge(condition.value)

\* _match_all_conditions from the k-th condition: "match", "fail", or "raise"
\* when a condition reached before any fails raises
RECURSIVE GroupOutcome(_, _, _)
GroupOutcome(token, conditions, k) ==
    IF k > Len(conditions) THEN "match"
    ELSE IF ConditionRaises(conditions[k]) THEN "raise"
    ELSE IF match_condition(token, conditions[k])
    THEN GroupOutcome(token, conditions, k + 1)
    ELSE "fail"

\* the groups of match_token in turn, from the g-th
RECURSIVE GroupsOutcome(_, _, _)
GroupStep(token, groups, g, outcome) ==
    IF outcome = "fail" THEN GroupsOutcome(token, groups, g + 1) ELSE outcome

GroupsOutcome(token, groups, g) ==
    IF g > Len(groups) THEN "fail"
    ELSE GroupStep(token, groups, g, GroupOutcome(token, groups[g], 1))

\* match_token with its raises: "match" is True, "fail" is False
TokenOutcome(token, pattern) ==
    IF pattern.is_any THEN "match"
    ELSE GroupsOutcome(token, ConditionGroups(pattern), 1)

(* ------------------------------------------------------------------ *)
(* Sequence matcher                                                    *)
(* ------------------------------------------------------------------ *)

\* ConsumeLoop stopping at min_count instead of max_count
RECURSIVE ConsumeLoopToMin(_, _, _, _)
ConsumeLoopToMin(tokens, pattern, current_pos, match_count) ==
    IF /\ current_pos < Len(tokens)
       /\ match_count < pattern.min_count
       /\ match_token(Char(tokens, current_pos), pattern)
    THEN ConsumeLoopToMin(tokens, pattern, current_pos + 1, match_count + 1)
    ELSE [current_pos |-> current_pos, match_count |-> match_count]

\* ConsumeLoop without the test against max_count
RECURSIVE ConsumeLoopUncapped(_, _, _, _)
ConsumeLoopUncapped(tokens, pattern, current_pos, match_count) ==
    IF /\ current_pos < Len(tokens)
       /\ match_token(Char(tokens, current_pos), pattern)
    THEN ConsumeLoopUncapped(tokens, pattern, current_pos + 1, match_count + 1)
    ELSE [current_pos |-> current_pos, match_count |-> match_count]

\* the inner while loop of _try_match_sequence: the position and the count
\* it ends with
RECURSIVE ConsumeLoop(_, _, _, _)
ConsumeLoop(tokens, pattern, current_pos, match_count) ==
    IF /\ current_pos < Len(tokens)
       /\ match_count < pattern.max_count
       /\ match_token(Char(tokens, current_pos), pattern)
    THEN ConsumeLoop(tokens, pattern, current_pos + 1, match_count + 1)
    ELSE [current_pos |-> current_pos, match_count |-> match_count]

\* what the for loop of _try_match_sequence ends with; counts is the
\* match_count each pattern ended with (0 for a pattern passed over at the
\* end of the tokens), kept for the properties of the loop
LoopEnd(completed, current_pos, matched_tokens, counts) ==
    [completed |-> completed, current_pos |-> current_pos,
     matched_tokens |-> matched_tokens, counts |-> counts]

RECURSIVE PatternLoop(_, _, _, _, _, _)

\* "if match_count < pattern.min_count: return None", else the next pattern
AfterRun(tokens, patterns, k, current_pos, matched_tokens, counts, run) ==
    IF run.match_count < patterns[k].min_count
    THEN LoopEnd(FALSE, run.current_pos, matched_tokens,
                 Append(counts, run.match_count))
    ELSE PatternLoop(tokens, patterns, k + 1, run.current_pos,
                     matched_tokens \o Slice(tokens, current_pos, run.current_pos),
                     Append(counts, run.match_count))

\* the for loop of _try_match_sequence over patterns[k..]
PatternLoop(tokens, patterns, k, current_pos, matched_tokens, counts) ==
    IF k > Len(patterns) THEN LoopEnd(TRUE, current_pos, matched_tokens, counts)
    ELSE IF current_pos >= Len(tokens)
    THEN IF patterns[k].min_count = 0 \/ patterns[k].optional
         THEN PatternLoop(tokens, patterns, k + 1, current_pos, matched_tokens,
                          Append(counts, 0))
         ELSE LoopEnd(FALSE, current_pos, matched_tokens, Append(counts, 0))
    ELSE AfterRun(tokens, patterns, k, current_pos, matched_tokens, counts,
                  ConsumeLoop(tokens, patterns[k], current_pos, 0))

\* SequenceResult without "if not matched_tokens: return None"
SequenceResultAllowEmpty(start_pos, r) ==
    [matched        |-> r.completed,
     start_pos      |-> start_pos,
     end_pos        |-> r.current_pos,
     matched_tokens |-> r.matched_tokens,
     counts         |-> r.counts]

\* the return of _try_match_sequence: matched = FALSE is None
SequenceResult(start_pos, r) ==
    [matched        |-> r.completed /\ r.matched_tokens # <<>>,
     start_pos      |-> start_pos,
     end_pos        |-> r.current_pos,
     matched_tokens |-> r.matched_tokens,
     counts         |-> r.counts]

\* _try_match_sequence
try_match_sequence(tokens, patterns, start_pos) ==
    SequenceResult(start_pos,
                   PatternLoop(tokens, patterns, 1, start_pos, <<>>, <<>>))

\* OnlyFiller looking at is_space alone
OnlyFillerSpaceOnly(matched_tokens) ==
    \/ matched_tokens = <<>>
    \/ \A k \in DOMAIN matched_tokens : Flag(matched_tokens[k], "is_space")

\* the test of _find_matches_simple that drops a matched span
OnlyFiller(matched_tokens) ==
    \/ matched_tokens = <<>>
    \/ \A k \in DOMAIN matched_tokens :
          Flag(matched_tokens[k], "is_space") \/ Flag(matched_tokens[k], "is_punct")

\* the left context loop: i runs from start_pos - 1 down to stop + 1
RECURSIVE LeftLoop(_, _, _, _, _)
LeftLoop(tokens, i, stop, context_size, left_context) ==
    IF i <= stop \/ i < 0 THEN left_context
    ELSE LET grown == IF ~Flag(Char(tokens, i), "is_space")
                      THEN <<Char(tokens, i)>> \o left_context
                      ELSE left_context
         IN  IF Len(grown) >= context_size THEN grown
             ELSE LeftLoop(tokens, i - 1, stop, context_size, grown)

\* LeftContext searching back to the beginning of the stream
LeftContextUncapped(tokens, start_pos, context_size) ==
    LeftLoop(tokens, start_pos - 1, -1, context_size, <<>>)

LeftContext(tokens, start_pos, context_size) ==
    LET lowest == IF start_pos - context_size * 2 > 0
                  THEN start_pos - context_size * 2 ELSE 0
    IN  LeftLoop(tokens, start_pos - 1, lowest - 1, context_size, <<>>)

\* the right context loop: i runs from end_pos up to stop - 1
RECURSIVE RightLoop(_, _, _, _, _)
RightLoop(tokens, i, stop, context_size, right_context) ==
    IF i >= stop THEN right_context
    ELSE LET grown == IF ~Flag(Char(tokens, i), "is_space")
                      THEN Append(right_context, Char(tokens, i))
                      ELSE right_context
         IN  IF Len(grown) >= context_size THEN grown
             ELSE RightLoop(tokens, i + 1, stop, context_size, grown)

\* RightContext searching on to the end of the stream
RightContextUncapped(tokens, end_pos, context_size) ==
    RightLoop(tokens, end_pos, Len(tokens), context_size, <<>>)

RightContext(tokens, end_pos, context_size) ==
    LET highest == IF end_pos + context_size * 2 < Len(tokens)
                   THEN end_pos + context_size * 2 ELSE Len(tokens)
    IN  RightLoop(tokens, end_pos, highest, context_size, <<>>)

\* the match dictionary _find_matches_simple yields
Match(tokens, r, context_size) ==
    [position       |-> r.start_pos,
     end_position   |-> r.end_pos,
     matched_tokens |-> r.matched_tokens,
     left_context   |-> LeftContext(tokens, r.start_pos, context_size),
     right_context  |-> RightContext(tokens, r.end_pos, context_size)]

(* ------------------------------------------------------------------ *)
(* Inputs: query strings                                               *)
(* ------------------------------------------------------------------ *)

Quoted(value) ==
    <<"\"">> \o value \o <<"\"">>

Cond(attribute, operator, value) ==
    attribute \o operator \o Quoted(value)

Bracket(content, suffix) ==
    <<"[">> \o content \o <<"]">> \o suffix

RECURSIVE Concat(_)
Concat(pieces) ==
    IF pieces = <<>> THEN <<>> ELSE Head(pieces) \o Concat(Tail(pieces))

VN == <<"N">>
VV == <<"V">>
VP == <<"P">>
VS == <<"S">>
W_foo == <<"f", "o", "o">>
Amp == <<" ", "&", " ">>
Bar == <<" ", "|", " ">>

\* bracket contents: the four operators, the prefix negation, AND and OR,
\* the bare literal, and contents outside the condition grammar
GoodContents ==
    { <<>>,
      Cond(W_pos, OpRegex, VN),
      Cond(W_pos, OpExact, VN),
      Cond(W_pos, OpNotRegex, VN),
      Cond(W_pos, OpNotExact, VN),
      <<"!">> \o Cond(W_pos, OpRegex, VN),
      <<"!">> \o Cond(W_pos, OpNotExact, VN),
      W_pos \o <<" ", "=", " ">> \o Quoted(VN),
      Cond(W_pos, OpRegex, VN) \o Amp \o Cond(W_tag, OpExact, VV),
      Cond(W_pos, OpRegex, VN) \o Bar \o Cond(W_word, OpRegex, VV),
      Quoted(VN) }

OddContents ==
    { Cond(W_pos, OpTriple, VN),
      <<"!">> \o Cond(W_pos, OpTriple, VN),
      Cond(W_pos, OpRegex, VN) \o <<" ">> \o Cond(W_tag, OpRegex, VV),
      Cond(W_pos, OpRegex, VN) \o <<" ", "x">>,
      Cond(W_pos, OpRegex, VN) \o Amp,
      <<"&", " ">> \o Cond(W_pos, OpRegex, VN),
      Cond(W_pos, OpRegex, VN) \o Bar,
      <<"|", " ">> \o Cond(W_pos, OpRegex, VN),
      <<"|">>,
      <<"&">>,
      <<"&", "|", "&">>,
      <<"!", "(">> \o Cond(W_pos, OpRegex, VN) \o <<")">>,
      Cond(W_foo, OpRegex, VN),
      Cond(W_pos, <<"=", "!">>, VN),
      Cond(W_pos, <<"!">>, VN),
      Cond(W_pos, <<"<">>, VN),
      Cond(W_pos, <<"=", " ", "=">>, VN),
      W_pos \o <<"=">> \o VN,
      W_pos }

Contents ==
    GoodContents \cup OddContents

\* repetition suffixes, well-formed and not
Suffixes ==
    { <<>>, <<"?">>, <<"*">>,
      <<"{", "2", "}">>,
      <<"{", "1", ",", "2", "}">>,
      <<"{", "2", ",", "1", "}">>,
      <<"{", ",", "2", "}">>,
      <<"{", "1", ",", "}">>,
      <<"{", " ", "1", " ", ",", " ", "2", " ", "}">>,
      <<"{", "}">>,
      <<"{", "x", "}">>,
      <<"{", "1", ",", "2", ",", "3", "}">>,
      <<"{", "-", "1", "}">>,
      <<"{", "1">> }

\* the first token of a query
FirstTokens ==
    {Bracket(c, s) : c \in Contents, s \in {<<>>, <<"{", "2", "}">>}}
    \cup {Bracket(c, s) : c \in {<<>>, Cond(W_pos, OpRegex, VN)}, s \in Suffixes}
    \cup { Quoted(VN), <<"\"", "N">>, <<"[">> \o Cond(W_pos, OpRegex, VN),
           <<"x">>, <<" ">>, <<>> }

\* what follows it: nothing, or a second token, in sequence or as a second
\* alternative
SecondTokens ==
    { Bracket(Cond(W_tag, OpRegex, VV), <<>>), Quoted(VV),
      Bracket(Cond(W_foo, OpRegex, VV), <<>>), Bracket(<<>>, <<>>) }

\* the largest number of stray '|' written at one place
MaxBars == 2

RECURSIVE Bars(_)
Bars(k) ==
    IF k = 0 THEN <<>> ELSE <<"|">> \o Bars(k - 1)

\* the queries as written, without stray bars: [plain, places], places being
\* the pieces between which stray bars may be written
PlainQueries ==
    {<<t>> : t \in FirstTokens}
    \cup {<<t, <<" ">>, u>> : t \in FirstTokens, u \in SecondTokens}
    \cup {<<t, Bar, u>> : t \in FirstTokens, u \in SecondTokens}

\* a plain query with lead stray bars before it, trail after it and, where it
\* has a top-level '|', extra more beside that one
WithBars(pieces, lead, extra, trail) ==
    Bars(lead) \o Head(pieces)
        \o (IF Len(pieces) = 1 THEN <<>>
            ELSE IF pieces[2] = Bar
            THEN <<" ", "|">> \o Bars(extra) \o <<" ">> \o pieces[3]
            ELSE pieces[2] \o pieces[3])
        \o (IF trail = 0 THEN <<>> ELSE <<" ">> \o Bars(trail))

(* ------------------------------------------------------------------ *)
(* Inputs: token streams and parsed queries for the matcher            *)
(* ------------------------------------------------------------------ *)

TokN == [word |-> <<"a">>, pos |-> VN]
TokV == [word |-> <<"b">>, pos |-> VV]
TokP == [word |-> <<",">>, pos |-> VP, is_punct |-> TRUE]
TokS == [word |-> <<" ">>, pos |-> VS, is_space |-> TRUE]

TokenAlphabet ==
    {TokN, TokV, TokP, TokS}

\* the longest token stream
MaxTokens == 4

\* the largest context_size
MaxContext == 2

TokenStreams ==
    UNION {[1..n -> TokenAlphabet] : n \in 0..MaxTokens}

B_N == Bracket(Cond(W_pos, OpRegex, VN), <<>>)
B_V == Bracket(Cond(W_pos, OpRegex, VV), <<>>)
B_any == Bracket(<<>>, <<>>)

MatchQueryStrings ==
    {  B_N,
       B_any,
       Bracket(Cond(W_pos, OpRegex, VP), <<>>),
       Bracket(Cond(W_pos, OpRegex, VN), <<"{", "1", ",", "2", "}">>) \o <<" ">> \o B_N,
       B_N \o <<" ">> \o Bracket(<<>>, <<"?">>) \o <<" ">> \o B_V,
       Bracket(<<>>, <<"{", "2", ",", "3", "}">>),
       Bracket(Cond(W_pos, OpRegex, VN) \o Bar \o Cond(W_pos, OpExact, VV), <<>>),
       B_N \o Bar \o B_any,
       B_N \o <<" ">> \o B_V \o Bar \o B_any \o <<" ">> \o B_V \o Bar \o B_V,
       Bracket(Cond(W_word, OpTriple, <<"a">>), <<>>),
       Bracket(<<"!">> \o Cond(W_word, OpTriple, <<"a">>), <<>>),
       Bracket(Cond(W_pos, OpRegex, VS), <<"*">>) \o B_N,
       Bracket(Cond(W_pos, OpNotRegex, VN), <<"?">>)
           \o Bracket(Cond(W_pos, OpExact, VP), <<"?">>),
       Bracket(Cond(W_pos, OpRegex, VV), <<"{", "-", "1", "}">>) \o B_N }

\* the CQLQuery parse() returns for each
MatchQueries ==
    {parse(q).query : q \in MatchQueryStrings}

\* the part-of-speech tags of the documentation's examples
NOUN == <<"N", "O", "U", "N">>
VERB == <<"V", "E", "R", "B">>
ADJ == <<"A", "D", "J">>
DET == <<"D", "E", "T">>
PRON == <<"P", "R", "O", "N">>
ADV == <<"A", "D", "V">>

PosIs(tag) == Bracket(Cond(W_pos, OpRegex, tag), <<>>)

\* [pos="NOUN"] [pos="VERB"] | [pos="ADJ"] [pos="NOUN"]
Q_NounVerbOrAdjNoun ==
    PosIs(NOUN) \o <<" ">> \o PosIs(VERB) \o Bar \o PosIs(ADJ) \o <<" ">> \o PosIs(NOUN)

\* [lemma=="make" & pos="VERB"] [pos="DET"]? [pos="NOUN"]
Q_MakeDetNoun ==
    Bracket(Cond(W_lemma, OpExact, <<"m", "a", "k", "e">>) \o Amp
                \o Cond(W_pos, OpRegex, VERB), <<>>)
        \o <<" ">> \o Bracket(Cond(W_pos, OpRegex, DET), <<"?">>)
        \o <<" ">> \o PosIs(NOUN)

\* [pos="NOUN"]{1,3} [pos="NOUN"]
Q_NounsThenNoun ==
    Bracket(Cond(W_pos, OpRegex, NOUN), <<"{", "1", ",", "3", "}">>)
        \o <<" ">> \o PosIs(NOUN)

Word(word, lemma, tag) ==
    [word |-> word, lemma |-> lemma, pos |-> tag]

Car == Word(<<"c", "a", "r">>, <<"c", "a", "r">>, NOUN)

\* the example streams
T_RedCar ==
    << Word(<<"r", "e", "d">>, <<"r", "e", "d">>, ADJ), Car >>

T_SheMadeADecision ==
    << Word(<<"S", "h", "e">>, <<"s", "h", "e">>, PRON),
       Word(<<"m", "a", "d", "e">>, <<"m", "a", "k", "e">>, VERB),
       Word(<<"a">>, <<"a">>, DET),
       Word(<<"d", "e", "c", "i", "s", "i", "o", "n">>,
            <<"d", "e", "c", "i", "s", "i", "o", "n">>, NOUN),
       Word(<<"q", "u", "i", "c", "k", "l", "y">>,
            <<"q", "u", "i", "c", "k", "l", "y">>, ADV) >>

\* the same without the DET token
T_SheMadeDecision ==
    SubSeq(T_SheMadeADecision, 1, 2) \o SubSeq(T_SheMadeADecision, 4, 5)

T_FourNouns ==
    <<Car, Car, Car, Car>>

\* each example query with the streams it is run over
ExampleRuns ==
    { <<Q_NounVerbOrAdjNoun, T_RedCar>>,
      <<Q_MakeDetNoun, T_SheMadeADecision>>,
      <<Q_MakeDetNoun, T_SheMadeDecision>>,
      <<Q_NounsThenNoun, T_FourNouns>> }

(* ------------------------------------------------------------------ *)
(* State                                                               *)
(* ------------------------------------------------------------------ *)

VARIABLES
    pc,              \* where the call in progress stands
    \* parse(query)
    plain,           \* the pieces of the query as written without stray bars
    text,            \* the local 'query': the string, stripped once parsing begins
    qpos,            \* the local 'pos' of phase 1
    segments,        \* the local 'segments'
    result,          \* what parse returned or raised
    validation,      \* what validate_query returned
    \* find_matches(tokens, query, context_size)
    tokens,
    query,
    context_size,
    alt,             \* the alternative being scanned (0: the query has none)
    pos,             \* the local 'pos' of _find_matches_simple
    seen_positions,
    matches,         \* the matches yielded so far
    trace,           \* one record per _try_match_sequence call made so far
    \* match_token(token, pattern), pattern parsed from [content]
    bracket_content, \* what is written between the brackets
    one_token,       \* the argument 'token'
    token_pattern,   \* the argument 'pattern', parsed from [bracket_content]
    verdict          \* what match_token returned

parseVars == <<plain, text, qpos, segments, result, validation>>
matchVars == <<tokens, query, context_size, alt, pos, seen_positions, matches, trace>>
evalVars == <<bracket_content, one_token, token_pattern, verdict>>
vars == <<pc, parseVars, matchVars, evalVars>>

NoResult == [ok |-> FALSE, error |-> "none yet"]

NoValidation == [valid |-> FALSE, error |-> "none yet"]

\* an exception parse() raises that is not a CQLParseError
OtherError(msg) == [ok |-> FALSE, error |-> msg, unexpected |-> TRUE]

ParseIdle ==
    /\ plain = <<>>
    /\ text = <<>>
    /\ qpos = 0
    /\ segments = <<>>
    /\ result = NoResult
    /\ validation = NoValidation

MatchIdle ==
    /\ tokens = <<>>
    /\ query = CQLQuery(<<>>, <<>>)
    /\ context_size = 0
    /\ alt = 0
    /\ pos = 0
    /\ seen_positions = {}
    /\ matches = <<>>
    /\ trace = <<>>

EvalIdle ==
    /\ bracket_content = <<>>
    /\ one_token = [word |-> <<>>]
    /\ token_pattern = TokenPattern(<<>>, <<>>, TRUE, 1, 1, FALSE)
    /\ verdict = FALSE

(* ------------------------------------------------------------------ *)
(* parse(), step by step                                               *)
(* ------------------------------------------------------------------ *)

\* validate_query(query) is called: with a query string, or with None in
\* its place
InitParse ==
    /\ pc = "parse"
    /\ \/ \E pieces \in PlainQueries, lead \in 0..MaxBars, extra \in 0..MaxBars,
             trail \in 0..MaxBars :
             /\ (Len(pieces) = 3 /\ pieces[2] = Bar) \/ extra = 0
             /\ plain = pieces
             /\ text = WithBars(pieces, lead, extra, trail)
       \/ (plain = <<None>> /\ text = None)
    /\ qpos = 0
    /\ segments = <<>>
    /\ result = NoResult
    /\ validation = NoValidation
    /\ MatchIdle
    /\ EvalIdle

\* query = query.strip(); if not query: raise
StripQuery ==
    /\ pc = "parse"
    /\ text # None
    /\ Strip(text) # <<>>
    /\ text' = Strip(text)
    /\ pc' = "phase1"
    /\ UNCHANGED <<plain, qpos, segments, result, validation, matchVars, evalVars>>

\* query.strip() on a query that is no string: AttributeError
RaiseAttributeError ==
    /\ pc = "parse"
    /\ text = None
    /\ result' = OtherError("'NoneType' object has no attribute 'strip'")
    /\ pc' = "raised"
    /\ UNCHANGED <<plain, text, qpos, segments, validation, matchVars, evalVars>>

RaiseEmpty ==
    /\ pc = "parse"
    /\ text # None
    /\ Strip(text) = <<>>
    /\ text' = Strip(text)
    /\ result' = ParseError("Empty query")
    /\ pc' = "raised"
    /\ UNCHANGED <<plain, qpos, segments, validation, matchVars, evalVars>>

\* one iteration of the phase-1 loop that appends a segment
ScanSegment(kind) ==
    /\ pc = "phase1"
    /\ \E step \in {Phase1Step(text, qpos, segments)} :
          /\ step.kind = kind
          /\ qpos' = step.pos
          /\ segments' = step.segments
    /\ UNCHANGED <<pc, plain, text, result, validation, matchVars, evalVars>>

ScanBracket == ScanSegment("bracket")

ScanQuoted == ScanSegment("quoted")

ScanOr == ScanSegment("or")

\* an iteration that raises
RaiseInScan ==
    /\ pc = "phase1"
    /\ \E step \in {Phase1Step(text, qpos, segments)} :
          /\ step.kind = "error"
          /\ result' = ParseError(step.error)
    /\ pc' = "raised"
    /\ UNCHANGED <<plain, text, qpos, segments, validation, matchVars, evalVars>>

\* the loop ends; phase 2 returns the query or raises
EndScan ==
    /\ pc = "phase1"
    /\ SkipSpaces(text, qpos) >= Len(text)
    /\ qpos' = SkipSpaces(text, qpos)
    /\ \E r \in {Phase2(segments)} :
          /\ result' = r
          /\ pc' = IF r.ok THEN "parsed" ELSE "raised"
    /\ UNCHANGED <<plain, text, segments, validation, matchVars, evalVars>>

\* pattern_count of validate_query
RECURSIVE SumOfLengths(_, _)
SumOfLengths(groups, n) ==
    IF n = 0 THEN 0 ELSE Len(groups[n]) + SumOfLengths(groups, n - 1)

PatternCount(parsed) ==
    IF parsed.or_groups # <<>>
    THEN SumOfLengths(parsed.or_groups, Len(parsed.or_groups))
    ELSE Len(parsed.patterns)

\* the dictionary validate_query returns from its try block
ValidReport(parsed) ==
    [valid |-> TRUE, error |-> None, pattern_count |-> PatternCount(parsed)]

\* InvalidReport without the message
InvalidReportNoMessage(error) ==
    [valid |-> FALSE, error |-> None]

\* the dictionary validate_query returns from an except block
InvalidReport(error) ==
    [valid |-> FALSE, error |-> error]

IsUnexpected(r) ==
    "unexpected" \in DOMAIN r

\* validate_query: parse returned
ValidateParsed ==
    /\ pc = "parsed"
    /\ validation' = ValidReport(result.query)
    /\ pc' = "validated"
    /\ UNCHANGED <<plain, text, qpos, segments, result, matchVars, evalVars>>

\* except CQLParseError as e
ValidateParseError ==
    /\ pc = "raised"
    /\ ~IsUnexpected(result)
    /\ validation' = InvalidReport(<<result.error>>)
    /\ pc' = "validated"
    /\ UNCHANGED <<plain, text, qpos, segments, result, matchVars, evalVars>>

\* except Exception as e
ValidateOtherError ==
    /\ pc = "raised"
    /\ IsUnexpected(result)
    /\ validation' = InvalidReport(<<"Unexpected error: ", result.error>>)
    /\ pc' = "validated"
    /\ UNCHANGED <<plain, text, qpos, segments, result, matchVars, evalVars>>

NextParse ==
    \/ StripQuery
    \/ RaiseAttributeError
    \/ RaiseEmpty
    \/ ScanBracket
    \/ ScanQuoted
    \/ ScanOr
    \/ RaiseInScan
    \/ EndScan
    \/ ValidateParsed
    \/ ValidateParseError
    \/ ValidateOtherError

SpecParse ==
    InitParse /\ [][NextParse]_vars

(* ------------------------------------------------------------------ *)
(* find_matches(), one _try_match_sequence call per step               *)
(* ------------------------------------------------------------------ *)

InitMatch ==
    /\ pc = "call"
    /\ \/ query \in MatchQueries /\ tokens \in TokenStreams
       \/ \E run \in ExampleRuns : query = parse(run[1]).query /\ tokens = run[2]
    /\ context_size \in 0..MaxContext
    /\ alt = 0
    /\ pos = 0
    /\ seen_positions = {}
    /\ matches = <<>>
    /\ trace = <<>>
    /\ ParseIdle
    /\ EvalIdle

\* if query.or_groups: seen_positions = set(); the first alternative
StartAlternated ==
    /\ pc = "call"
    /\ query.or_groups # <<>>
    /\ alt' = 1
    /\ seen_positions' = {}
    /\ pos' = 0
    /\ pc' = "scan"
    /\ UNCHANGED <<parseVars, evalVars, tokens, query, context_size, matches, trace>>

\* else: yield from self._find_matches_simple(tokens, query, context_size)
StartSimple ==
    /\ pc = "call"
    /\ query.or_groups = <<>>
    /\ alt' = 0
    /\ pos' = 0
    /\ pc' = "scan"
    /\ UNCHANGED <<parseVars, evalVars, tokens, query, context_size, seen_positions,
                   matches, trace>>

\* CurrentPatterns running the first alternative every time
FirstAlternativeOnly ==
    IF alt = 0 THEN query.patterns ELSE query.or_groups[1]

\* query.patterns of the (alt_)query _find_matches_simple is running on
CurrentPatterns ==
    IF alt = 0 THEN query.patterns ELSE query.or_groups[alt]

Attempt ==
    try_match_sequence(tokens, CurrentPatterns, pos)

PosKey(r) ==
    <<r.start_pos, r.end_pos>>

Logged(r, outcome) ==
    Append(trace, [alt |-> alt, start_pos |-> r.start_pos, end_pos |-> r.end_pos,
                   matched |-> r.matched, counts |-> r.counts,
                   outcome |-> outcome])

\* ResumeAfterYield going on from the end of the match
ResumeAtEnd(r) ==
    r.end_pos

\* ResumeAfterYield trying the same start again, for a while
ResumeAtStart(r) ==
    IF Len(trace) < 2 * Len(tokens) THEN r.start_pos ELSE r.start_pos + 1

\* the position _find_matches_simple goes on from after a yield
ResumeAfterYield(r) ==
    r.start_pos + 1

\* IsNewSpan keyed by the start position alone
IsNewStart(r) ==
    alt = 0 \/ \A key \in seen_positions : key[1] # r.start_pos

\* whether find_matches passes a yielded match on
IsNewSpan(r) ==
    alt = 0 \/ PosKey(r) \notin seen_positions

\* match_result is None: pos += 1
AttemptNoMatch ==
    /\ pc = "scan"
    /\ pos < Len(tokens)
    /\ \E r \in {Attempt} :
          /\ ~r.matched
          /\ trace' = Logged(r, "none")
    /\ pos' = pos + 1
    /\ UNCHANGED <<pc, parseVars, evalVars, tokens, query, context_size, alt,
                   seen_positions, matches>>

\* the span holds only space/punct tokens: pos += 1; continue
AttemptFiltered ==
    /\ pc = "scan"
    /\ pos < Len(tokens)
    /\ \E r \in {Attempt} :
          /\ r.matched
          /\ OnlyFiller(r.matched_tokens)
          /\ trace' = Logged(r, "filtered")
    /\ pos' = pos + 1
    /\ UNCHANGED <<pc, parseVars, evalVars, tokens, query, context_size, alt,
                   seen_positions, matches>>

\* _find_matches_simple yields and find_matches passes the match on
AttemptYield ==
    /\ pc = "scan"
    /\ pos < Len(tokens)
    /\ \E r \in {Attempt} :
          /\ r.matched
          /\ ~OnlyFiller(r.matched_tokens)
          /\ IsNewSpan(r)
          /\ matches' = Append(matches, Match(tokens, r, context_size))
          /\ seen_positions' = IF alt = 0 THEN seen_positions
                               ELSE seen_positions \cup {PosKey(r)}
          /\ pos' = ResumeAfterYield(r)
          /\ trace' = Logged(r, "yielded")
    /\ UNCHANGED <<pc, parseVars, evalVars, tokens, query, context_size, alt>>

\* _find_matches_simple yields a span find_matches has seen: not passed on
AttemptDuplicate ==
    /\ pc = "scan"
    /\ pos < Len(tokens)
    /\ \E r \in {Attempt} :
          /\ r.matched
          /\ ~OnlyFiller(r.matched_tokens)
          /\ ~IsNewSpan(r)
          /\ pos' = ResumeAfterYield(r)
          /\ trace' = Logged(r, "duplicate")
    /\ UNCHANGED <<pc, parseVars, evalVars, tokens, query, context_size, alt,
                   seen_positions, matches>>

\* the scan of one alternative is over: the next one, from position 0
NextAlternative ==
    /\ pc = "scan"
    /\ pos >= Len(tokens)
    /\ alt # 0
    /\ alt < Len(query.or_groups)
    /\ alt' = alt + 1
    /\ pos' = 0
    /\ UNCHANGED <<pc, parseVars, evalVars, tokens, query, context_size, seen_positions,
                   matches, trace>>

\* the generator is exhausted
Finish ==
    /\ pc = "scan"
    /\ pos >= Len(tokens)
    /\ (alt = 0 \/ alt = Len(query.or_groups))
    /\ pc' = "done"
    /\ UNCHANGED <<parseVars, matchVars, evalVars>>

NextMatch ==
    \/ StartAlternated
    \/ StartSimple
    \/ AttemptNoMatch
    \/ AttemptFiltered
    \/ AttemptYield
    \/ AttemptDuplicate
    \/ NextAlternative
    \/ Finish

SpecMatch ==
    InitMatch /\ [][NextMatch]_vars

\* one pass through the body of the while loop of _find_matches_simple, by
\* what every branch of it does to pos: "pos += 1", or "pos = start_pos + 1"
\* with start_pos the pos the attempt was made at
ScanStep ==
    /\ pc = "scan"
    /\ pos < Len(tokens)
    /\ pos' = pos + 1

\* the caller consumes the generator fully: it keeps asking for the next
\* match, and every step of the generator's code runs to its end
SpecMatchLive ==
    /\ SpecMatch
    /\ WF_vars(StartAlternated \/ StartSimple \/ NextAlternative \/ Finish)
    /\ WF_pos(ScanStep)

(* ------------------------------------------------------------------ *)
(* match_token() on one token, the pattern parsed from one bracket     *)
(* ------------------------------------------------------------------ *)

EvalAttributes ==
    {W_word, W_headpos}

\* values: a literal, a regex, the empty value, values re.compile rejects
\* with re.error, and one it rejects with OverflowError
TooLarge ==
    <<"a", "{", "9", "9", "9", "9", "9", "9", "9", "9", "9", "9", "9", "}">>

EvalValues ==
    {<<"a">>, <<".", "*">>, <<>>, <<"*">>, <<"(">>, <<"*", "A">>, TooLarge}

\* a condition on attribute and value with each operator, with and without
\* the prefix '!'
ConditionForms(attribute, value) ==
    {Cond(attribute, op, value) : op \in OPERATORS}
        \cup {<<"!">> \o Cond(attribute, op, value) : op \in OPERATORS}

EvalContents ==
    UNION {ConditionForms(a, v) : a \in EvalAttributes, v \in EvalValues}
        \cup { <<>>,
               Quoted(<<"a">>),
               Cond(W_word, OpRegex, <<"a">>) \o Amp \o Cond(W_pos, OpExact, VN),
               Cond(W_word, OpRegex, <<"a">>) \o Bar \o Cond(W_pos, OpExact, VN),
               Cond(W_word, OpRegex, <<"a">>) \o Amp \o Cond(W_pos, OpExact, VV)
                   \o Bar \o Cond(W_word, OpRegex, <<"b">>),
               Cond(W_pos, OpRegex, VN) \o Amp \o Cond(W_word, OpRegex, TooLarge),
               Cond(W_pos, OpExact, VN) \o Bar \o Cond(W_word, OpRegex, TooLarge),
               Cond(W_foo, OpRegex, <<"a">>) }

\* tokens: with the attributes, without them, and with None for them
EvalTokens ==
    { TokN, TokV,
      [word |-> <<"A">>, pos |-> VN, headpos |-> <<"a">>],
      [word |-> <<"*", "a">>, pos |-> VN],
      [word |-> <<"*">>, headpos |-> <<"(">>],
      [word |-> <<"(">>, headpos |-> <<"*">>],
      [pos |-> VN],
      [word |-> None, pos |-> VN, headpos |-> None],
      [word |-> <<>>, pos |-> VN, headpos |-> <<>>] }

InitEval ==
    /\ pc = "bracket"
    /\ bracket_content \in EvalContents
    /\ one_token \in EvalTokens
    /\ token_pattern = TokenPattern(<<>>, <<>>, TRUE, 1, 1, FALSE)
    /\ verdict = FALSE
    /\ ParseIdle
    /\ MatchIdle

\* _parse_token_pattern returns the pattern of [bracket_content]
ParseBracket ==
    /\ pc = "bracket"
    /\ \E r \in {parse_token_pattern(Bracket(bracket_content, <<>>), 0)} :
          /\ r.ok
          /\ token_pattern' = r.pattern
    /\ pc' = "pattern"
    /\ UNCHANGED <<parseVars, matchVars, bracket_content, one_token, verdict>>

\* _parse_token_pattern raises
RejectBracket ==
    /\ pc = "bracket"
    /\ \E r \in {parse_token_pattern(Bracket(bracket_content, <<>>), 0)} :
          /\ ~r.ok
          /\ result' = r
    /\ pc' = "rejected"
    /\ UNCHANGED <<plain, text, qpos, segments, validation, matchVars, evalVars>>

\* match_token: if pattern.is_any: return True
MatchAny ==
    /\ pc = "pattern"
    /\ token_pattern.is_any
    /\ TokenOutcome(one_token, token_pattern) # "raise"
    /\ verdict' = match_token(one_token, token_pattern)
    /\ pc' = "evaluated"
    /\ UNCHANGED <<parseVars, matchVars, bracket_content, one_token, token_pattern>>

\* match_token: if pattern.or_conditions: the loop over the OR groups
MatchOrGroups ==
    /\ pc = "pattern"
    /\ ~token_pattern.is_any
    /\ token_pattern.or_conditions # <<>>
    /\ TokenOutcome(one_token, token_pattern) # "raise"
    /\ verdict' = match_token(one_token, token_pattern)
    /\ pc' = "evaluated"
    /\ UNCHANGED <<parseVars, matchVars, bracket_content, one_token, token_pattern>>

\* match_token: the AND conditions
MatchAndList ==
    /\ pc = "pattern"
    /\ ~token_pattern.is_any
    /\ token_pattern.or_conditions = <<>>
    /\ TokenOutcome(one_token, token_pattern) # "raise"
    /\ verdict' = match_token(one_token, token_pattern)
    /\ pc' = "evaluated"
    /\ UNCHANGED <<parseVars, matchVars, bracket_content, one_token, token_pattern>>

\* _match_condition raises and match_token lets the exception through
MatchRaises ==
    /\ pc = "pattern"
    /\ TokenOutcome(one_token, token_pattern) = "raise"
    /\ pc' = "match_raised"
    /\ UNCHANGED <<parseVars, matchVars, evalVars>>

NextEval ==
    \/ ParseBracket
    \/ RejectBracket
    \/ MatchRaises
    \/ MatchAny
    \/ MatchOrGroups
    \/ MatchAndList

SpecEval ==
    InitEval /\ [][NextEval]_vars

(* ------------------------------------------------------------------ *)
(* Properties of the matcher (SpecMatch)                               *)
(* ------------------------------------------------------------------ *)

Min(a, b) == IF a < b THEN a ELSE b

Max(a, b) == IF a > b THEN a ELSE b

RECURSIVE SumUpTo(_, _)
SumUpTo(counts, n) ==
    IF n = 0 THEN 0 ELSE counts[n] + SumUpTo(counts, n - 1)

\* the patterns the attempt e ran on
PatternsOf(e) ==
    IF e.alt = 0 THEN query.patterns ELSE query.or_groups[e.alt]

\* the length of the longest run of consecutive tokens from cursor that
\* satisfy pattern
RunLength(cursor, pattern) ==
    CHOOSE n \in 0..Max(0, Len(tokens) - cursor) :
        /\ \A j \in 0..(n - 1) : match_token(Char(tokens, cursor + j), pattern)
        /\ \/ cursor + n >= Len(tokens)
           \/ ~match_token(Char(tokens, cursor + n), pattern)

\* the cursor the i-th pattern of attempt e started from
CursorOf(e, i) ==
    e.start_pos + SumUpTo(e.counts, i - 1)

LastAttempt == trace[Len(trace)]

\* the attempt e took, pattern by pattern, the longest run capped at
\* max_count, and stopped at the first pattern left short of its min_count
GreedyAttempt(e) ==
    /\ Len(e.counts) \in 1..Len(PatternsOf(e))
    /\ \A i \in DOMAIN e.counts :
          e.counts[i] = Min(RunLength(CursorOf(e, i), PatternsOf(e)[i]),
                            PatternsOf(e)[i].max_count)
    /\ \A i \in 1..(Len(e.counts) - 1) :
          e.counts[i] >= PatternsOf(e)[i].min_count
    /\ Len(e.counts) < Len(PatternsOf(e))
          => e.counts[Len(e.counts)] < PatternsOf(e)[Len(e.counts)].min_count
    /\ e.matched
          => /\ Len(e.counts) = Len(PatternsOf(e))
             /\ \A i \in DOMAIN e.counts : e.counts[i] >= PatternsOf(e)[i].min_count
             /\ e.end_pos = CursorOf(e, Len(e.counts) + 1)
    /\ (\E i \in DOMAIN e.counts : e.counts[i] < PatternsOf(e)[i].min_count)
          => ~e.matched

\* C1: in every match attempt each pattern in turn consumes exactly the
\* longest run of consecutive tokens from the cursor that satisfy it, capped
\* at max_count; the attempt fails at the first pattern whose run is shorter
\* than its min_count, and that is the only consumption tried at this start.
C1_GreedyNoBacktracking ==
    trace # <<>> => GreedyAttempt(LastAttempt)

\* some other consumption (a backtracking matcher's) satisfies every pattern
\* from the start e was tried at
RECURSIVE SplitExists(_, _, _)
SplitExists(patterns, k, cursor) ==
    IF k > Len(patterns) THEN TRUE
    ELSE \E n \in 0..(Len(tokens) - cursor) :
            /\ n >= patterns[k].min_count
            /\ n <= patterns[k].max_count
            /\ \A j \in 0..(n - 1) : match_token(Char(tokens, cursor + j), patterns[k])
            /\ SplitExists(patterns, k + 1, cursor + n)

\* C1 witness: an attempt whose first pattern consumed more than one token was
\* given up at a later pattern, although a shorter consumption by the first
\* pattern would have let the sequence match.
C1_Witness ==
    /\ trace # <<>>
    /\ ~LastAttempt.matched
    /\ Len(LastAttempt.counts) > 1
    /\ LastAttempt.counts[1] > 1
    /\ SplitExists(PatternsOf(LastAttempt), 1, LastAttempt.start_pos)

\* C2: in the scan of a non-alternated query the start positions are tried
\* once each in increasing order 0, 1, ..., whether or not the attempt before
\* matched (after a match at [start, end) the next attempt is at start + 1),
\* all of 0..n-1 by the end, and the yielded starts strictly increase.
C2_EveryStartOnce ==
    (alt = 0 /\ pc \in {"scan", "done"})
        => /\ Len(trace) = pos
           /\ \A k \in DOMAIN trace : trace[k].start_pos = k - 1
           /\ pc = "done" => Len(trace) = Len(tokens)
           /\ \A i, j \in DOMAIN matches :
                 i < j => matches[i].position < matches[j].position

\* C2 witness: a finished scan with matches at start = 1 and at start = 2,
\* the first of them reaching over the token the second starts at.
C2_Witness ==
    /\ pc = "done"
    /\ alt = 0
    /\ \E i, j \in DOMAIN matches :
          /\ matches[i].position = 1
          /\ matches[j].position = 2
          /\ matches[i].end_position > 2

IsContent(token) ==
    ~Flag(token, "is_space") /\ ~Flag(token, "is_punct")

\* C3: a span on which the pattern sequence matched is yielded by
\* _find_matches_simple if and only if one of its tokens is flagged neither
\* is_space nor is_punct; no yielded match holds only such tokens.
C3_FillerOnlyDropped ==
    /\ (trace # <<>> /\ LastAttempt.matched)
          => (LastAttempt.outcome \in {"yielded", "duplicate"}
                <=> \E i \in LastAttempt.start_pos..(LastAttempt.end_pos - 1) :
                       IsContent(Char(tokens, i)))
    /\ (trace # <<>> /\ ~LastAttempt.matched) => LastAttempt.outcome = "none"
    /\ \A m \in DOMAIN matches :
          \E k \in DOMAIN matches[m].matched_tokens :
             IsContent(matches[m].matched_tokens[k])

\* C3 witness: a query that asks for punctuation matched a span and the span
\* was dropped.
C3_Witness ==
    /\ trace # <<>>
    /\ LastAttempt.matched
    /\ LastAttempt.outcome = "filtered"
    /\ ~PatternsOf(LastAttempt)[1].is_any
    /\ \E i \in LastAttempt.start_pos..(LastAttempt.end_pos - 1) :
          Flag(Char(tokens, i), "is_punct")

SpanOf(e) == <<e.start_pos, e.end_pos>>

\* C4: no two yielded matches of an alternated query have the same
\* (start, end); a span several alternatives match is yielded once, by the
\* earliest-declared alternative that matches it.
C4_SpansYieldedOnce ==
    /\ \A i, j \in DOMAIN matches :
          i # j => <<matches[i].position, matches[i].end_position>>
                     # <<matches[j].position, matches[j].end_position>>
    /\ \A k \in DOMAIN trace :
          /\ trace[k].outcome = "yielded"
                => \A h \in DOMAIN trace :
                      (trace[h].alt < trace[k].alt /\ SpanOf(trace[h]) = SpanOf(trace[k]))
                         => trace[h].outcome \in {"none", "filtered"}
          /\ trace[k].outcome = "duplicate"
                => \E h \in DOMAIN trace :
                      /\ trace[h].alt < trace[k].alt
                      /\ SpanOf(trace[h]) = SpanOf(trace[k])
                      /\ trace[h].outcome = "yielded"
    /\ Len(matches) = Cardinality({k \in DOMAIN trace : trace[k].outcome = "yielded"})

\* C4 witness: a later alternative matched a span an earlier one had yielded.
C4_Witness ==
    /\ trace # <<>>
    /\ LastAttempt.outcome = "duplicate"
    /\ LastAttempt.alt > 1

\* the non-whitespace tokens at the positions lo..hi-1
ContentCount(lo, hi) ==
    Cardinality({i \in lo..(hi - 1) : ~Flag(Char(tokens, i), "is_space")})

NoSpaceIn(context) ==
    \A k \in DOMAIN context : ~Flag(context[k], "is_space")

\* C5 as claimed: each side holds at most context_size tokens, none is_space,
\* and fewer than context_size only when the stream has no more non-whitespace
\* tokens on that side.
C5_FewerOnlyAtBoundary ==
    \A m \in DOMAIN matches :
        /\ Len(matches[m].left_context) <= context_size
        /\ Len(matches[m].right_context) <= context_size
        /\ NoSpaceIn(matches[m].left_context)
        /\ NoSpaceIn(matches[m].right_context)
        /\ Len(matches[m].left_context) < context_size
              => Len(matches[m].left_context) = ContentCount(0, matches[m].position)
        /\ Len(matches[m].right_context) < context_size
              => Len(matches[m].right_context)
                    = ContentCount(matches[m].end_position, Len(tokens))

\* C5 amended: each side holds at most context_size tokens, none is_space, and
\* fewer than context_size only when the 2 * context_size positions nearest
\* the match on that side (fewer at a stream boundary) hold no more
\* non-whitespace tokens.
C5_FewerOnlyInWindow ==
    \A m \in DOMAIN matches :
        /\ Len(matches[m].left_context) <= context_size
        /\ Len(matches[m].right_context) <= context_size
        /\ NoSpaceIn(matches[m].left_context)
        /\ NoSpaceIn(matches[m].right_context)
        /\ Len(matches[m].left_context) < context_size
              => Len(matches[m].left_context)
                    = ContentCount(Max(0, matches[m].position - 2 * context_size),
                                   matches[m].position)
        /\ Len(matches[m].right_context) < context_size
              => Len(matches[m].right_context)
                    = ContentCount(matches[m].end_position,
                                   Min(Len(tokens),
                                       matches[m].end_position + 2 * context_size))

\* C5 witness: a side is short of context_size although the stream holds a
\* non-whitespace token further out on that side.
C5_Witness ==
    \E m \in DOMAIN matches :
        /\ Len(matches[m].left_context) < context_size
        /\ ContentCount(0, matches[m].position) > 0

\* an AND-condition of the pattern has an operator _match_condition does not
\* evaluate
HasUnevaluable(pattern) ==
    /\ ~pattern.is_any
    /\ pattern.or_conditions = <<>>
    /\ \E k \in DOMAIN pattern.conditions :
          pattern.conditions[k].operator \notin OPERATORS

\* C9 as claimed: a pattern with an unevaluable AND-condition matches no
\* token, negated or not: in no attempt does it consume a token.
C9_UnevaluableMatchesNothing ==
    \A k \in DOMAIN trace :
        \A i \in DOMAIN trace[k].counts :
            HasUnevaluable(PatternsOf(trace[k])[i]) => trace[k].counts[i] = 0

\* the attempts of alternative a (0: the non-alternated query), as indices
\* of the trace
AttemptsOf(a) ==
    {k \in DOMAIN trace : trace[k].alt = a}

Alternatives ==
    IF query.or_groups = <<>> THEN {0} ELSE DOMAIN query.or_groups

BoundedScan ==
    \A a \in Alternatives :
        /\ Cardinality(AttemptsOf(a)) <= Len(tokens)
        /\ \A k, h \in AttemptsOf(a) :
              k < h => trace[k].start_pos < trace[h].start_pos
        /\ Cardinality({k \in AttemptsOf(a) : trace[k].outcome = "yielded"})
              <= Len(tokens)

\* C21: fully consumed, find_matches terminates, patterns with min_count 0
\* and max_count 100 included: each alternative makes at most n start
\* attempts, at strictly increasing start positions, and yields at most n
\* matches, n the number of tokens.
C21_ScanTerminates ==
    /\ []BoundedScan
    /\ <>(pc = "done")

\* C21 witness: the scan of a query whose first pattern has min_count 0 and
\* max_count 100 is over after one attempt at each of the n starts, one of
\* which yielded.
C21_Witness ==
    /\ pc = "done"
    /\ Len(tokens) = MaxTokens
    /\ query.patterns[1].min_count = 0
    /\ query.patterns[1].max_count = UnboundedMax
    /\ Cardinality(AttemptsOf(0)) = Len(tokens)
    /\ matches # <<>>

\* the query is one any-token pattern with bounds {m,n}, 1 <= m <= n
SingleAnyPattern ==
    /\ query.or_groups = <<>>
    /\ Len(query.patterns) = 1
    /\ query.patterns[1].is_any
    /\ 1 <= query.patterns[1].min_count
    /\ query.patterns[1].min_count <= query.patterns[1].max_count

MatchLength(match) ==
    match.end_position - match.position

\* C22: for a query that is one any-token pattern with bounds {m,n},
\* 1 <= m <= n, every yielded match is between m and n tokens long and none
\* starts where fewer than m tokens are left; for '[]{2,3}' every match
\* spans 2 or 3 tokens.
C22_AnyTokenRunLength ==
    SingleAnyPattern
        => /\ \A i \in DOMAIN matches :
                 /\ MatchLength(matches[i]) >= query.patterns[1].min_count
                 /\ MatchLength(matches[i]) <= query.patterns[1].max_count
                 /\ Len(matches[i].matched_tokens) = MatchLength(matches[i])
                 /\ Len(tokens) - matches[i].position >= query.patterns[1].min_count
           /\ \A k \in DOMAIN trace :
                 Len(tokens) - trace[k].start_pos < query.patterns[1].min_count
                    => trace[k].outcome = "none"
           /\ (query.patterns[1].min_count = 2 /\ query.patterns[1].max_count = 3)
                 => \A i \in DOMAIN matches : MatchLength(matches[i]) \in {2, 3}

\* C22 witness: the scan of '[]{2,3}' over four tokens is over, with a match
\* of three tokens where four were left, a match of two where two were left,
\* and none where one was left.
C22_Witness ==
    /\ pc = "done"
    /\ SingleAnyPattern
    /\ query.patterns[1].min_count = 2
    /\ query.patterns[1].max_count = 3
    /\ Len(tokens) = 4
    /\ \E i, j \in DOMAIN matches :
          /\ matches[i].position = 0 /\ MatchLength(matches[i]) = 3
          /\ matches[j].position = 2 /\ MatchLength(matches[j]) = 2
    /\ trace[4].outcome = "none"

\* the run is that of the query written as q over the stream
RunOf(written, stream) ==
    tokens = stream /\ query = parse(written).query

YieldedBy(a) ==
    {k \in DOMAIN trace : trace[k].alt = a /\ trace[k].outcome = "yielded"}

\* C23: '[pos="NOUN"] [pos="VERB"] | [pos="ADJ"] [pos="NOUN"]' over
\* ADJ("red"), NOUN("car") yields exactly one match, [0, 2), and it is the
\* second alternative that produces it; the first yields nothing.
C23_SecondAlternativeMatches ==
    RunOf(Q_NounVerbOrAdjNoun, T_RedCar)
        => /\ Len(query.or_groups) = 2
           /\ YieldedBy(1) = {}
           /\ \A k \in DOMAIN trace : trace[k].alt = 1 => ~trace[k].matched
           /\ Len(matches) <= 1
           /\ \A i \in DOMAIN matches :
                 /\ matches[i].position = 0
                 /\ matches[i].end_position = 2
                 /\ matches[i].matched_tokens = T_RedCar
           /\ pc = "done"
                 => /\ Len(matches) = 1
                    /\ \E k \in YieldedBy(2) : SpanOf(trace[k]) = <<0, 2>>

\* C23 witness: that run is over, both alternatives tried at both starts,
\* with one match.
C23_Witness ==
    /\ pc = "done"
    /\ RunOf(Q_NounVerbOrAdjNoun, T_RedCar)
    /\ Len(trace) = 4
    /\ Len(matches) = 1

\* the one match of the finished run is [start, end), the patterns having
\* consumed counts
OnlyMatch(start, end, counts) ==
    /\ Len(matches) <= 1
    /\ \A i \in DOMAIN matches :
          /\ matches[i].position = start
          /\ matches[i].end_position = end
          /\ matches[i].matched_tokens = SubSeq(tokens, start + 1, end)
    /\ \A k \in DOMAIN trace :
          trace[k].outcome = "yielded" <=> trace[k].start_pos = start
    /\ \A k \in DOMAIN trace :
          trace[k].outcome = "yielded" => trace[k].counts = counts
    /\ pc = "done" => Len(matches) = 1

\* C24: '[lemma=="make" & pos="VERB"] [pos="DET"]? [pos="NOUN"]' over
\* She, made, a, decision, quickly yields the match [1, 4) and no other;
\* without the DET token the optional pattern consumes nothing and the match
\* is [1, 3).
C24_OptionalDeterminer ==
    /\ RunOf(Q_MakeDetNoun, T_SheMadeADecision) => OnlyMatch(1, 4, <<1, 1, 1>>)
    /\ RunOf(Q_MakeDetNoun, T_SheMadeDecision) => OnlyMatch(1, 3, <<1, 0, 1>>)

\* C24 witness: the run over the stream without the DET token is over, with
\* its match made of the VERB and the NOUN.
C24_Witness ==
    /\ pc = "done"
    /\ RunOf(Q_MakeDetNoun, T_SheMadeDecision)
    /\ Len(matches) = 1
    /\ query.patterns[2].optional
    /\ matches[1].matched_tokens = <<tokens[2], tokens[3]>>
    /\ tokens[2].pos = VERB /\ tokens[3].pos = NOUN

\* the attempt e took for its first pattern every token it could, was given
\* up at the trailing pattern for want of a token, and a backtracking matcher
\* would have matched from the same start
GreedyMiss(e) ==
    /\ ~e.matched
    /\ e.counts = <<Min(3, Len(tokens) - e.start_pos), 0>>
    /\ e.start_pos + e.counts[1] = Len(tokens)
    /\ SplitExists(PatternsOf(e), 1, e.start_pos)

\* C25: over four NOUN tokens '[pos="NOUN"]{1,3} [pos="NOUN"]' fails at a
\* start from which a backtracking matcher would match by giving one noun
\* back: the first pattern takes every noun it can, up to 3, and the attempt
\* is given up when the trailing pattern finds no token.
C25_GreedyMissesBacktrackingMatch ==
    RunOf(Q_NounsThenNoun, T_FourNouns)
        => /\ \A k \in DOMAIN trace :
                 /\ trace[k].counts[1] = Min(3, Len(tokens) - trace[k].start_pos)
                 /\ trace[k].start_pos \in {1, 2} => GreedyMiss(trace[k])
                 /\ trace[k].matched <=> trace[k].start_pos = 0
           /\ pc = "done" => \E k \in DOMAIN trace : GreedyMiss(trace[k])

\* C25 witness: the attempt at start 1 took the three nouns left and was
\* given up, although one noun for each pattern would have matched.
C25_Witness ==
    /\ RunOf(Q_NounsThenNoun, T_FourNouns)
    /\ trace # <<>>
    /\ LastAttempt.start_pos = 1
    /\ LastAttempt.counts = <<3, 0>>
    /\ GreedyMiss(LastAttempt)

\* what a backtracking matcher looks for: the positions cursor..stop-1 split
\* into consecutive runs, one for each of patterns[k..], each run as long as
\* its pattern's bounds allow and made of tokens that satisfy the pattern
RECURSIVE SpanSplits(_, _, _, _)
SpanSplits(patterns, k, cursor, stop) ==
    IF k > Len(patterns) THEN cursor = stop
    ELSE \E n \in 0..(stop - cursor) :
            /\ n >= patterns[k].min_count
            /\ n <= patterns[k].max_count
            /\ \A j \in 0..(n - 1) : match_token(Char(tokens, cursor + j), patterns[k])
            /\ SpanSplits(patterns, k + 1, cursor + n, stop)

\* C26: the greedy matcher is sound with respect to a backtracking one:
\* every span it yields splits into consecutive runs, one per pattern in
\* order, each of a length within its pattern's [min_count, max_count] and
\* made of tokens that satisfy the pattern.
C26_SoundForBacktracking ==
    \A k \in DOMAIN trace :
        trace[k].outcome \in {"yielded", "duplicate"}
            => SpanSplits(PatternsOf(trace[k]), 1, trace[k].start_pos,
                          trace[k].end_pos)

\* the attempt e tested each pattern that consumed on the token right at its
\* cursor, whitespace or not, and ended where its last run ended
NothingSkipped(e) ==
    /\ e.end_pos = CursorOf(e, Len(e.counts) + 1)
    /\ \A i \in DOMAIN e.counts :
          \A j \in 0..(e.counts[i] - 1) :
             match_token(Char(tokens, CursorOf(e, i) + j), PatternsOf(e)[i])

\* C27: every yielded match has 0 <= start < end <= len(tokens) and
\* matched_tokens = tokens[start:end]; an attempt in which every pattern
\* consumes zero tokens yields nothing; whitespace tokens between two
\* patterns are not skipped: each pattern is tested on the token right after
\* the run of the pattern before it.
C27_ContiguousNonEmptySpans ==
    /\ \A i \in DOMAIN matches :
          /\ 0 <= matches[i].position
          /\ matches[i].position < matches[i].end_position
          /\ matches[i].end_position <= Len(tokens)
          /\ matches[i].matched_tokens
                = Slice(tokens, matches[i].position, matches[i].end_position)
    /\ \A k \in DOMAIN trace :
          /\ (\A i \in DOMAIN trace[k].counts : trace[k].counts[i] = 0)
                => trace[k].outcome = "none"
          /\ trace[k].matched => NothingSkipped(trace[k])

\* C27 witness: over N, space, V the attempt of '[pos="N"] [pos="V"]' at
\* start 0 was given up at the whitespace token, and another alternative
\* yielded a match.
C27_Witness ==
    /\ tokens = <<TokN, TokS, TokV>>
    /\ matches # <<>>
    /\ \E k \in DOMAIN trace :
          /\ trace[k].start_pos = 0
          /\ ~trace[k].matched
          /\ trace[k].counts = <<1, 0>>
          /\ match_token(TokV, PatternsOf(trace[k])[2])
          /\ ~PatternsOf(trace[k])[2].is_any

\* the spans the patterns yield when run alone as a non-alternated query: one
\* attempt at each start, the filler-only spans dropped
SpanAt(r) ==
    IF r.matched /\ ~OnlyFiller(r.matched_tokens) THEN {<<r.start_pos, r.end_pos>>}
    ELSE {}

SpansAlone(patterns) ==
    UNION {SpanAt(try_match_sequence(tokens, patterns, s)) : s \in 0..(Len(tokens) - 1)}

SpansYieldedBy(a) ==
    {SpanOf(trace[k]) : k \in YieldedBy(a)}

YieldedSpans ==
    {<<matches[i].position, matches[i].end_position>> : i \in DOMAIN matches}

\* C28: the set of spans find_matches yields for a query with alternatives
\* is the union of the sets each alternative yields when run alone, whatever
\* their order; the stream is grouped by alternative, each alternative adding
\* the spans of its own that no earlier one yielded, and is not sorted by
\* start.
C28_UnionOfAlternatives ==
    alt >= 1
        => /\ pc = "done"
                 => YieldedSpans
                       = UNION {SpansAlone(query.or_groups[a]) :
                                   a \in DOMAIN query.or_groups}
           /\ \A k, h \in DOMAIN trace : k < h => trace[k].alt <= trace[h].alt
           /\ \A a \in DOMAIN query.or_groups :
                 (a < alt \/ pc = "done")
                    => SpansYieldedBy(a)
                          = SpansAlone(query.or_groups[a])
                               \ UNION {SpansYieldedBy(b) : b \in 1..(a - 1)}

\* C28 witness: a finished run of three alternatives in which a later
\* alternative added a span that starts before one yielded earlier, and
\* matched again a span an earlier one had yielded.
C28_Witness ==
    /\ pc = "done"
    /\ alt = 3
    /\ \E i, j \in DOMAIN matches :
          i < j /\ matches[j].position < matches[i].position
    /\ \E k \in DOMAIN trace : trace[k].outcome = "duplicate"

NotSpace(token) ==
    ~Flag(token, "is_space")

\* the last (nearest the end) and the first count elements of a sequence
LastOf(seq, count) ==
    SubSeq(seq, Max(1, Len(seq) - count + 1), Len(seq))

FirstOf(seq, count) ==
    SubSeq(seq, 1, Min(count, Len(seq)))

\* the windows of a match: the 2 * context_size positions before its start
\* and after its end, cut at the ends of the stream
LeftWindow(match) ==
    Slice(tokens, Max(0, match.position - 2 * context_size), match.position)

RightWindow(match) ==
    Slice(tokens, match.end_position,
          Min(Len(tokens), match.end_position + 2 * context_size))

\* C29: left_context is drawn from the positions max(0, start - 2c)..start-1
\* and right_context from end..min(n, end + 2c)-1 only; each holds the
\* non-is_space tokens of its window nearest to the match, up to c of them,
\* in stream order, and none of the matched span.
C29_ContextWindows ==
    \A i \in DOMAIN matches :
        /\ matches[i].left_context
              = LastOf(SelectSeq(LeftWindow(matches[i]), NotSpace), context_size)
        /\ matches[i].right_context
              = FirstOf(SelectSeq(RightWindow(matches[i]), NotSpace), context_size)

\* C29 witness: with context_size 2 a match that starts right after a
\* whitespace token has as left context the two different tokens before
\* that one, in stream order.
C29_Witness ==
    /\ context_size = 2
    /\ \E i \in DOMAIN matches :
          /\ matches[i].position = 3
          /\ Flag(tokens[3], "is_space")
          /\ matches[i].left_context = <<tokens[1], tokens[2]>>
          /\ tokens[1] # tokens[2]

(* ------------------------------------------------------------------ *)
(* Properties of the parser (SpecParse)                                *)
(* ------------------------------------------------------------------ *)

ParseReturned == pc \in {"parsed", "raised"}

\* the parts of s between the occurrences of operator outside quotes, the
\* empty ones kept
RECURSIVE StrictParts(_, _, _, _, _, _)
StrictParts(s, i, operator, parts, current, in_quotes) ==
    IF i >= Len(s) THEN Append(parts, current)
    ELSE IF Char(s, i) = operator /\ ~in_quotes
    THEN StrictParts(s, i + 1, operator, Append(parts, current), <<>>, in_quotes)
    ELSE StrictParts(s, i + 1, operator, parts, Append(current, Char(s, i)),
                     IF Char(s, i) = "\"" THEN ~in_quotes ELSE in_quotes)

RECURSIVE SkipOperatorChars(_, _)
SkipOperatorChars(s, i) ==
    IF i < Len(s) /\ Char(s, i) \in {"=", "!", "<", ">", "~"}
    THEN SkipOperatorChars(s, i + 1) ELSE i

\* attribute operator quoted-value from position p to the end of part
GrammarCondFrom(part, p) ==
    LET wend == SkipWord(part, p)
        a    == SkipSpaces(part, wend)
        oend == SkipOperatorChars(part, a)
        q    == SkipSpaces(part, oend)
    IN  /\ Slice(part, p, wend) \in ATTRIBUTES
        /\ Slice(part, a, oend) \in OPERATORS
        /\ q < Len(part) - 1
        /\ Char(part, q) = "\""
        /\ IndexFrom(part, "\"", q + 1) = Len(part) - 1

\* and_cond: '!'? attribute operator quoted-value
GrammarAndCond(part) ==
    IF part # <<>> /\ Head(part) = "!"
    THEN GrammarCondFrom(part, 1)
    ELSE GrammarCondFrom(part, 0)

GrammarOrGroup(part) ==
    \A c \in Range(StrictParts(part, 0, "&", <<>>, <<>>, FALSE)) :
        GrammarAndCond(Strip(c))

BareLiteral(content) ==
    /\ Len(content) >= 2
    /\ Head(content) = "\""
    /\ IndexFrom(content, "\"", 1) = Len(content) - 1

\* the content of a bracket is nothing, a bare quoted literal, or or-groups
\* joined by '|' of and_conds joined by '&'
Conforms(content) ==
    \/ Strip(content) = <<>>
    \/ BareLiteral(Strip(content))
    \/ \A g \in Range(StrictParts(Strip(content), 0, "|", <<>>, <<>>, FALSE)) :
          GrammarOrGroup(Strip(g))

\* C6 as claimed: parse raises for every query with a bracket whose content is
\* neither derivable from the condition grammar nor a bare quoted literal.
C6_NonconformingRaises ==
    (/\ ParseReturned
     /\ \E c \in Contents, s \in Suffixes :
           Head(plain) = Bracket(c, s) /\ ~Conforms(c))
        => ~result.ok

AllPatterns(q) ==
    Range(q.patterns) \cup UNION {Range(q.or_groups[g]) : g \in DOMAIN q.or_groups}

AllConditions(pattern) ==
    Range(pattern.conditions)
        \cup UNION {Range(pattern.or_conditions[g]) : g \in DOMAIN pattern.or_conditions}

\* C7 as claimed: every pattern of a query parse returns has
\* min_count <= max_count.
C7_MinAtMostMax ==
    pc = "parsed"
        => \A p \in AllPatterns(result.query) : p.min_count <= p.max_count

\* operator spellings outside the four
OtherSpellings ==
    {OpTriple, <<"=", "!">>, <<"!">>, <<"<">>, <<"=", " ", "=">>}

\* C8 as claimed: every condition of a query parse returns has its operator
\* among '=', '!=', '==', '!==' and its attribute among the nine names, and a
\* condition written with another operator spelling makes parse raise.
C8_ClosedOperatorSet ==
    /\ pc = "parsed"
          => \A p \in AllPatterns(result.query) :
                \A c \in AllConditions(p) :
                   c.operator \in OPERATORS /\ c.attribute \in ATTRIBUTES
    /\ (/\ ParseReturned
        /\ \E op \in OtherSpellings, s \in Suffixes :
              Head(plain) \in {Bracket(Cond(W_pos, op, VN), s),
                               Bracket(<<"!">> \o Cond(W_pos, op, VN), s)})
          => ~result.ok

\* the query was written with stray bars
HasStrayBars ==
    Strip(text) # Strip(Concat(plain))

\* C10: stray top-level '|' written before, after or beside the '|' of a
\* query that parses never make parse fail, and the query returned has the
\* patterns and the alternatives of the query without them.
C10_StrayBarsDropped ==
    (ParseReturned /\ parse(Concat(plain)).ok)
        => /\ result.ok
           /\ result.query.patterns = parse(Concat(plain)).query.patterns
           /\ result.query.or_groups = parse(Concat(plain)).query.or_groups

\* C10 witness: a query of two alternatives written with a leading bar and
\* consecutive bars was parsed.
C10_Witness ==
    /\ pc = "parsed"
    /\ HasStrayBars
    /\ Head(text) = "|"
    /\ Len(plain) = 3
    /\ plain[2] = Bar
    /\ text # Bars(1) \o Concat(plain)
    /\ Len(result.query.or_groups) = 2

\* the '|' characters of s outside brackets and outside top-level quotes
RECURSIVE TopLevelBarCount(_, _, _, _)
TopLevelBarCount(s, i, depth, in_quotes) ==
    IF i >= Len(s) THEN 0
    ELSE IF in_quotes
    THEN TopLevelBarCount(s, i + 1, depth, Char(s, i) # "\"")
    ELSE IF depth > 0
    THEN TopLevelBarCount(s, i + 1,
             IF Char(s, i) = "]" THEN depth - 1
             ELSE IF Char(s, i) = "[" THEN depth + 1 ELSE depth,
             FALSE)
    ELSE IF Char(s, i) = "[" THEN TopLevelBarCount(s, i + 1, 1, FALSE)
    ELSE IF Char(s, i) = "\"" THEN TopLevelBarCount(s, i + 1, 0, TRUE)
    ELSE (IF Char(s, i) = "|" THEN 1 ELSE 0)
            + TopLevelBarCount(s, i + 1, 0, FALSE)

\* the query was written as two alternatives
TwoAlternativesWritten ==
    Len(plain) = 3 /\ plain[2] = Bar

\* C11: every query parse returns has a non-empty patterns list and an
\* or_groups list that is empty or holds at least 2 non-empty pattern lists,
\* patterns being the first of them; or_groups is empty when the query string
\* has no top-level '|' and when one alternative remains once the stray bars
\* are dropped.
C11_AlternativesShape ==
    pc = "parsed"
        => /\ result.query.patterns # <<>>
           /\ \/ result.query.or_groups = <<>>
              \/ /\ Len(result.query.or_groups) >= 2
                 /\ \A g \in DOMAIN result.query.or_groups :
                       result.query.or_groups[g] # <<>>
                 /\ result.query.patterns = result.query.or_groups[1]
           /\ TopLevelBarCount(text, 0, 0, FALSE) = 0
                 => result.query.or_groups = <<>>
           /\ ~TwoAlternativesWritten => result.query.or_groups = <<>>

\* C11 witness: a query written with top-level bars around its one
\* alternative was parsed into the form without alternatives.
C11_Witness ==
    /\ pc = "parsed"
    /\ ~TwoAlternativesWritten
    /\ TopLevelBarCount(text, 0, 0, FALSE) > 1
    /\ result.query.or_groups = <<>>
    /\ result.query.patterns # <<>>

\* C12: validate_query returns valid = TRUE exactly when parse returned; when
\* parse raised, a CQLParseError or another exception, it returns
\* valid = FALSE with an error message that is not None, and the exception
\* goes no further: validate_query returns from every raise.
C12_ValidIffParses ==
    /\ pc = "validated"
          => /\ validation.valid <=> result.ok
             /\ validation.valid <=> (text # None /\ parse(text).ok)
             /\ ~result.ok => (~validation.valid /\ validation.error # None)
    /\ pc = "raised" => ENABLED (ValidateParseError \/ ValidateOtherError)

\* C12 witness: parse raised an exception that is no CQLParseError and
\* validate_query returned valid = FALSE with a message.
C12_Witness ==
    /\ pc = "validated"
    /\ IsUnexpected(result)
    /\ ~validation.valid
    /\ validation.error # None

\* a non-negative decimal integer, spaces around it allowed
IsCount(part) ==
    /\ Strip(part) # <<>>
    /\ \A k \in DOMAIN Strip(part) : IsDigitChar(Strip(part)[k])

\* s is '{' int '}' or '{' int? ',' int? '}'
RepetitionForm(s) ==
    /\ Len(s) >= 2
    /\ Head(s) = "{"
    /\ IndexFrom(s, "}", 0) = Len(s) - 1
    /\ LET body   == Slice(s, 1, Len(s) - 1)
           commas == {k \in DOMAIN body : body[k] = ","}
       IN  IF commas = {} THEN IsCount(body)
           ELSE /\ Cardinality(commas) = 1
                /\ \A k \in commas :
                      /\ Strip(SubSeq(body, 1, k - 1)) = <<>>
                            \/ IsCount(SubSeq(body, 1, k - 1))
                      /\ Strip(SubSeq(body, k + 1, Len(body))) = <<>>
                            \/ IsCount(SubSeq(body, k + 1, Len(body)))

\* C13 as claimed: parse raises for every query whose '{...}' suffix is not
\* '{' int '}' or '{' int? ',' int? '}' with non-negative decimal integers.
C13_MalformedRepetitionRaises ==
    (/\ ParseReturned
     /\ \E c \in Contents, s \in Suffixes :
           /\ Head(plain) = Bracket(c, s)
           /\ s # <<>>
           /\ Head(s) = "{"
           /\ ~RepetitionForm(s))
        => ~result.ok

\* the malformed queries among those written: empty or whitespace only, a
\* '[' with no matching ']', an unclosed top-level quote, an attribute outside
\* ATTRIBUTES (in the first token or in a later one), a top-level character
\* that is none of '[', '"', '|' and whitespace
MalformedWritten ==
    \/ Strip(text) = <<>>
    \/ Head(plain) = <<"[">> \o Cond(W_pos, OpRegex, VN)
    \/ Head(plain) = <<"\"", "N">>
    \/ \E s \in Suffixes : Head(plain) = Bracket(Cond(W_foo, OpRegex, VN), s)
    \/ (Len(plain) = 3 /\ plain[3] = Bracket(Cond(W_foo, OpRegex, VV), <<>>))
    \/ Head(plain) = <<"x">>

CompletePattern(p) ==
    DOMAIN p = {"conditions", "or_conditions", "is_any", "min_count",
                "max_count", "optional"}

\* C14: called with a string, parse returns a complete query or raises
\* CQLParseError and returns nothing; it raises for empty or whitespace-only
\* input, an unmatched '[', an unclosed top-level quote, an attribute outside
\* the nine names and an unexpected top-level character; an error in a later
\* token leaves no query built from the earlier ones.
C14_QueryOrParseError ==
    (ParseReturned /\ text # None)
        => /\ result.ok
                => /\ pc = "parsed"
                   /\ DOMAIN result = {"ok", "query"}
                   /\ DOMAIN result.query = {"patterns", "or_groups"}
                   /\ result.query.patterns # <<>>
                   /\ \A q \in AllPatterns(result.query) : CompletePattern(q)
           /\ ~result.ok
                => /\ pc = "raised"
                   /\ DOMAIN result = {"ok", "error"}
           /\ MalformedWritten => ~result.ok

\* C14 witness: the first token was parsed into a segment, the second one has
\* an unknown attribute, and parse raised without returning a query.
C14_Witness ==
    /\ pc = "raised"
    /\ Len(plain) = 3
    /\ plain[3] = Bracket(Cond(W_foo, OpRegex, VV), <<>>)
    /\ \E k \in DOMAIN segments : segments[k].type = "pattern"
    /\ DOMAIN result = {"ok", "error"}
    /\ result.error = "Unknown attribute"

\* the quantifiers as written with the bounds they stand for
QuantifierTable ==
    { [suffix |-> <<>>, min |-> 1, max |-> 1, optional |-> FALSE],
      [suffix |-> <<"?">>, min |-> 0, max |-> 1, optional |-> TRUE],
      [suffix |-> <<"*">>, min |-> 0, max |-> 100, optional |-> FALSE],
      [suffix |-> <<"{", "2", "}">>, min |-> 2, max |-> 2, optional |-> FALSE],
      [suffix |-> <<"{", "1", ",", "2", "}">>,
       min |-> 1, max |-> 2, optional |-> FALSE],
      [suffix |-> <<"{", "2", ",", "1", "}">>,
       min |-> 2, max |-> 1, optional |-> FALSE],
      [suffix |-> <<"{", ",", "2", "}">>,
       min |-> 0, max |-> 2, optional |-> FALSE],
      [suffix |-> <<"{", "1", ",", "}">>,
       min |-> 1, max |-> 100, optional |-> FALSE],
      [suffix |-> <<"{", " ", "1", " ", ",", " ", "2", " ", "}">>,
       min |-> 1, max |-> 2, optional |-> FALSE] }

HasBounds(p, min, max, optional) ==
    p.min_count = min /\ p.max_count = max /\ p.optional = optional

\* the patterns of q at every place but the first
PatternsAfterFirst(q) ==
    {q.patterns[k] : k \in 2..Len(q.patterns)}
        \cup UNION {{q.or_groups[g][k] :
                        k \in (IF g = 1 THEN 2 ELSE 1)..Len(q.or_groups[g])} :
                    g \in DOMAIN q.or_groups}

\* C15: a quantifier written directly after ']' sets the bounds of that
\* pattern ({n}: n, n; {m,n}: m or 0, n or 100; '?': 0, 1, optional; '*': 0,
\* 100) and every other pattern of the query keeps 1, 1.
C15_QuantifierBounds ==
    pc = "parsed"
        => \A e \in QuantifierTable :
              (\E c \in Contents : Head(plain) = Bracket(c, e.suffix))
                 => /\ HasBounds(result.query.patterns[1], e.min, e.max, e.optional)
                    /\ \A p \in PatternsAfterFirst(result.query) :
                          HasBounds(p, 1, 1, FALSE)

\* C15 witness: a query of two patterns, the first written with {,2}, was
\* parsed.
C15_Witness ==
    /\ pc = "parsed"
    /\ Len(plain) = 3
    /\ Head(plain) = Bracket(Cond(W_pos, OpRegex, VN), <<"{", ",", "2", "}">>)
    /\ Len(result.query.patterns) = 2
    /\ HasBounds(result.query.patterns[1], 0, 2, FALSE)
    /\ HasBounds(result.query.patterns[2], 1, 1, FALSE)

\* C20: every token pattern of a query parse returns has its AND list or its
\* OR-groups empty, and an is_any pattern has both empty.
C20_OneRepresentation ==
    pc = "parsed"
        => \A p \in AllPatterns(result.query) :
              /\ p.conditions = <<>> \/ p.or_conditions = <<>>
              /\ p.is_any => (p.conditions = <<>> /\ p.or_conditions = <<>>)

\* C20 witness: a parsed query holds a pattern with OR-groups and no AND
\* list, and an is_any pattern.
C20_Witness ==
    /\ pc = "parsed"
    /\ \E p \in AllPatterns(result.query) :
          p.or_conditions # <<>> /\ p.conditions = <<>> /\ ~p.is_any
    /\ \E p \in AllPatterns(result.query) :
          p.is_any /\ p.conditions = <<>> /\ p.or_conditions = <<>>

\* C30: every token pattern of a query parse returns that is not is_any
\* carries a condition, in its AND list or in one of its OR-groups, so the
\* empty bracket '[]' is the only bracket form that matches every token
\* unconditionally.
C30_ConditionOrAny ==
    pc = "parsed"
        => \A p \in AllPatterns(result.query) :
              ~p.is_any => AllConditions(p) # {}

(* ------------------------------------------------------------------ *)
(* Properties of the condition evaluator (SpecEval)                    *)
(* ------------------------------------------------------------------ *)

\* the outcome of match_token on the token of the run for the pattern of
\* [written]
OutcomeOf(written) ==
    TokenOutcome(one_token,
                 parse_token_pattern(Bracket(written, <<>>), 0).pattern)

\* the outcome of the run
RunOutcome ==
    IF pc = "match_raised" THEN "raise"
    ELSE IF verdict THEN "match" ELSE "fail"

Evaluated == pc \in {"evaluated", "match_raised"}

Negated(written) == <<"!">> \o written

\* the pairs the claim equates, for one attribute and value
EquatedPairs(a, v) ==
    { <<Negated(Cond(a, OpExact, v)), Cond(a, OpNotExact, v)>>,
      <<Negated(Cond(a, OpRegex, v)), Cond(a, OpNotRegex, v)>>,
      <<Negated(Cond(a, OpNotRegex, v)), Cond(a, OpRegex, v)>>,
      <<Negated(Cond(a, OpNotExact, v)), Cond(a, OpExact, v)>> }

\* C16: prefix negation and operator negation combine by XOR: on every token
\* '!attr=="v"' evaluates as 'attr!=="v"', '!attr="v"' as 'attr!="v"',
\* '!attr!="v"' as 'attr="v"' and '!attr!=="v"' as 'attr=="v"': the two
\* give the same truth value, or both raise.
C16_NegationsCombineByXor ==
    Evaluated
        => \A a \in EvalAttributes, v \in EvalValues :
              \A pair \in EquatedPairs(a, v) :
                 /\ bracket_content = pair[1] => RunOutcome = OutcomeOf(pair[2])
                 /\ bracket_content = pair[2] => RunOutcome = OutcomeOf(pair[1])

\* C16 witness: '!word!="a"' was parsed into a negated '!=' condition and
\* holds on a token whose word is "a".
C16_Witness ==
    /\ pc = "evaluated"
    /\ bracket_content = Negated(Cond(W_word, OpNotRegex, <<"a">>))
    /\ token_pattern.conditions[1].negated
    /\ token_pattern.conditions[1].operator = OpNotRegex
    /\ one_token = TokN
    /\ verdict

\* the value the token has for attribute a, read by hand
ValueOf(a) ==
    IF AttrKey(a) \in DOMAIN one_token /\ one_token[AttrKey(a)] # None
    THEN one_token[AttrKey(a)]
    ELSE <<>>

\* values that are no compilable regular expression: the repetition of
\* nothing, the unclosed group, and the repetition count too large
UncompilableValues ==
    { v \in EvalValues : RegexError(v) \/ RepeatTooLarge(v) }

\* C17: with a value that is no compilable regular expression, evaluation
\* does not raise, '=' gives on every token what the case-insensitive exact
\* comparison gives and '!=' the opposite, the prefix negation then applied
\* as usual.
C17_BadRegexFallsBackToExact ==
    \A a \in EvalAttributes, v \in UncompilableValues :
       /\ bracket_content \in {Cond(a, OpRegex, v), Cond(a, OpNotRegex, v),
                               Negated(Cond(a, OpRegex, v)),
                               Negated(Cond(a, OpNotRegex, v))}
             => pc # "match_raised"
       /\ pc = "evaluated"
             => /\ bracket_content = Cond(a, OpRegex, v)
                      => /\ verdict = (Lower(ValueOf(a)) = Lower(v))
                         /\ RunOutcome = OutcomeOf(Cond(a, OpExact, v))
                /\ bracket_content = Cond(a, OpNotRegex, v)
                      => /\ verdict = (Lower(ValueOf(a)) # Lower(v))
                         /\ RunOutcome = OutcomeOf(Cond(a, OpNotExact, v))
                /\ bracket_content = Negated(Cond(a, OpRegex, v))
                      => verdict = (Lower(ValueOf(a)) # Lower(v))
                /\ bracket_content = Negated(Cond(a, OpNotRegex, v))
                      => verdict = (Lower(ValueOf(a)) = Lower(v))

\* the token of the run with the empty string for attribute a
WithEmpty(a) ==
    [k \in DOMAIN one_token \cup {AttrKey(a)} |->
        IF k = AttrKey(a) THEN <<>> ELSE one_token[k]]

Lacks(a) ==
    AttrKey(a) \notin DOMAIN one_token \/ one_token[AttrKey(a)] = None

\* C18: a condition on an attribute the token lacks or holds as None
\* evaluates, without raising, as on a token holding the empty string for it;
\* with a non-empty literal v, '=="v"' fails and '!=="v"' holds there.
C18_MissingReadsAsEmpty ==
    \A a \in EvalAttributes, v \in EvalValues :
       (Lacks(a) /\ bracket_content \in ConditionForms(a, v))
          => /\ pc # "match_raised"
             /\ pc = "evaluated"
                   => /\ verdict = match_token(WithEmpty(a), token_pattern)
                      /\ (v # <<>> /\ bracket_content = Cond(a, OpExact, v))
                            => ~verdict
                      /\ (v # <<>> /\ bracket_content = Cond(a, OpNotExact, v))
                            => verdict

AllHold(conditions) ==
    \A k \in DOMAIN conditions : match_condition(one_token, conditions[k])

SomeRaises(conditions) ==
    \E k \in DOMAIN conditions : ConditionRaises(conditions[k])

\* C19: match_token returns TRUE for an is_any pattern; otherwise, for a
\* pattern with OR-groups, TRUE iff all conditions of at least one group
\* hold; otherwise TRUE iff every condition of the AND list holds. It raises
\* only what the evaluation of one of the pattern's conditions raises.
C19_AndOrSemantics ==
    /\ pc = "evaluated"
          => verdict =
                (IF token_pattern.is_any THEN TRUE
                 ELSE IF token_pattern.or_conditions # <<>>
                 THEN \E g \in DOMAIN token_pattern.or_conditions :
                         AllHold(token_pattern.or_conditions[g])
                 ELSE AllHold(token_pattern.conditions))
    /\ pc = "match_raised"
          => /\ ~token_pattern.is_any
             /\ \/ SomeRaises(token_pattern.conditions)
                \/ \E g \in DOMAIN token_pattern.or_conditions :
                      SomeRaises(token_pattern.or_conditions[g])

\* C19 witness: of two OR-groups the first, an AND of two conditions, has one
\* condition that holds and one that fails, and the second group holds.
C19_Witness ==
    /\ pc = "evaluated"
    /\ Len(token_pattern.or_conditions) = 2
    /\ Len(token_pattern.or_conditions[1]) = 2
    /\ ~AllHold(token_pattern.or_conditions[1])
    /\ \E k \in 1..2 : match_condition(one_token, token_pattern.or_conditions[1][k])
    /\ AllHold(token_pattern.or_conditions[2])
    /\ verdict

====
